---- MODULE Spec2Model ----
(***************************************************************************)
(* SpaceGraph: the agent's event pipeline (watchers, queues, broadcast     *)
(* bus, UDS server) and the viewer's graph state engine (GraphModel,       *)
(* GraphState, timeline, GC, visibility).                                  *)
(*                                                                         *)
(* Strings are sequences of one-character strings, so that to_lowercase,   *)
(* contains and the lexicographic order of ids are computed, not assumed.  *)
(* Instants are natural numbers read from the variable clock.              *)
(***************************************************************************)
EXTENDS Integers, Sequences, FiniteSets, TLC

VARIABLES
    clock,      \* Instant::now()
    model,      \* GraphState.model : GraphModel {nodes, edges, last_seen, adj, agg}
    call,       \* the last direct call of a GraphModel method: arguments and return value
    spatial,    \* GraphState.spatial : SpatialState
    timeline,   \* GraphState.timeline : TimelineState
    ui,         \* GraphState.ui : UiState
    perf,       \* GraphState.perf : PerfState
    cfg,        \* GraphState.cfg : CfgState
    net_rx,     \* NetRx: the crossbeam queue from the network reader to the engine
    vis_out,    \* the last result of visible_set_capped() and the cap it was called with
    rd,         \* net/uds.rs run: the reader's position, its shutdown signal, what it sent
    fs,         \* fs watcher coalescer task: pending, batch_id, outbox
    proc,       \* proc watcher task: prev, batch_id, outbox
    fs_q,       \* mpsc channel fs watcher -> forwarder
    proc_q,     \* mpsc channel proc watcher -> forwarder
    bus,        \* broadcast channel: every message sent so far, oldest first
    srv,        \* server::run: position in the accept loop and the connection served
    policy,     \* the agent's PathPolicy, and the last should_watch call and its result
    conn        \* per viewer: socket state, frames written to it, bus receiver

modelVars  == <<model, call>>
viewerVars == <<spatial, timeline, ui, perf, cfg, net_rx, vis_out, rd>>
agentVars  == <<fs, proc, fs_q, proc_q, bus, srv, conn, policy>>
vars == <<clock, model, call, spatial, timeline, ui, perf, cfg, net_rx, vis_out, rd,
          fs, proc, fs_q, proc_q, bus, srv, conn, policy>>

-----------------------------------------------------------------------------
(* Bounds of the model *)

MaxClock == 1        \* the clock stops advancing here
MaxCount == 2        \* cap on AggEdge.stats.count (a cumulative u64)
MaxSnapEdges == 2    \* most edges in a snapshot handed to load_snapshot
MaxFsBatches == 1    \* batches the fs watcher emits
MaxProcBatches == 1  \* batches the proc watcher emits
QueueCap == 1        \* capacity of a watcher's mpsc queue (8192 in main.rs)
BusCap == 2          \* capacity of the broadcast bus (32_768 in main.rs)
NetBacklog == 1      \* messages waiting in the engine's queue when another is delivered
MaxEvents == 2       \* TimelineState.max_events as configured (default 20_000)

-----------------------------------------------------------------------------
(* Generic helpers: HashMap insert/remove, Vec operations *)

Put(f, k, v) == [x \in (DOMAIN f) \cup {k} |-> IF x = k THEN v ELSE f[x]]

Del(f, k) == [x \in (DOMAIN f) \ {k} |-> f[x]]

EmptyMap == [x \in {} |-> 0]

Range(s) == {s[i] : i \in DOMAIN s}


\* every enumeration of a finite set as a sequence (iteration order of a HashSet/HashMap)
Orders(S) ==
    {s \in [1..Cardinality(S) -> S] : \A i, j \in 1..Cardinality(S) : i # j => s[i] # s[j]}

-----------------------------------------------------------------------------
(* spacegraph-core: ids, nodes, edges *)

\* "{node_id}:process:pid:{pid}", the prefix abbreviated to one character
id_process(pid) == <<"p">> \o pid

\* "{node_id}:user:{uid}"
id_user(uid) == <<"u">> \o uid

\* "{node_id}:file:{path}"
id_file(path) == <<"f">> \o path

ProcessNode(pid, exe, cmdline) ==
    [type |-> "Process", n |-> pid, exe |-> exe, cmdline |-> cmdline, path |-> <<>>, name |-> <<>>]

FileNode(path) ==
    [type |-> "File", n |-> <<>>, exe |-> <<>>, cmdline |-> <<>>, path |-> path, name |-> <<>>]

UserNode(uid, name) ==
    [type |-> "User", n |-> uid, exe |-> <<>>, cmdline |-> <<>>, path |-> <<>>, name |-> name]

Opens(fd, mode) == [type |-> "Opens", fd |-> fd, mode |-> mode]
Execs == [type |-> "Execs", fd |-> 0, mode |-> ""]
RunsAs == [type |-> "RunsAs", fd |-> 0, mode |-> ""]

Edge(from, to, kind) == [from |-> from, to |-> to, kind |-> kind]

-----------------------------------------------------------------------------
(* graph/model.rs: GraphModel *)

\* EdgeKindClass::from_kind
from_kind(kind) == kind.type

\* AggEdgeKey::new
AggEdgeKey(edge) == [from |-> edge.from, to |-> edge.to, class |-> from_kind(edge.kind)]

EmptyModel ==
    [nodes |-> EmptyMap, edges |-> {}, last_seen |-> EmptyMap, adj |-> EmptyMap, agg |-> EmptyMap]

insert_adj_NoTo(m, edge) ==
    LET a1 == IF edge.from \in DOMAIN m.adj THEN m.adj[edge.from] ELSE <<>>
    IN  [m EXCEPT !.adj = Put(m.adj, edge.from, Append(a1, edge))]

insert_adj(m, edge) ==
    LET a1 == IF edge.from \in DOMAIN m.adj THEN m.adj[edge.from] ELSE <<>>
        adj1 == Put(m.adj, edge.from, Append(a1, edge))
        a2 == IF edge.to \in DOMAIN adj1 THEN adj1[edge.to] ELSE <<>>
    IN  [m EXCEPT !.adj = Put(adj1, edge.to, Append(a2, edge))]

remove_adj_entry(adj, id, edge) ==
    IF id \notin DOMAIN adj THEN adj
    ELSE LET Keep(e) == e # edge
             list == SelectSeq(adj[id], Keep)
         IN  IF list = <<>> THEN Del(adj, id) ELSE Put(adj, id, list)

remove_adj(m, edge) ==
    [m EXCEPT !.adj = remove_adj_entry(remove_adj_entry(m.adj, edge.from, edge), edge.to, edge)]

update_agg_on_upsert_AlwaysLive(m, edge, now, inserted) ==
    LET key == AggEdgeKey(edge)
        old == IF key \in DOMAIN m.agg THEN m.agg[key]
               ELSE [key |-> key, count |-> 0, first_ts |-> now, last_ts |-> now,
                     last_kind |-> edge.kind, live_count |-> 0]
    IN  [m EXCEPT !.agg = Put(m.agg, key,
            [old EXCEPT !.count = @ + 1, !.last_ts = now, !.last_kind = edge.kind,
                        !.live_count = @ + 1])]

update_agg_on_upsert(m, edge, now, inserted) ==
    LET key == AggEdgeKey(edge)
        old == IF key \in DOMAIN m.agg THEN m.agg[key]
               ELSE [key |-> key, count |-> 0, first_ts |-> now, last_ts |-> now,
                     last_kind |-> edge.kind, live_count |-> 0]
    IN  [m EXCEPT !.agg = Put(m.agg, key,
            [old EXCEPT !.count = @ + 1, !.last_ts = now, !.last_kind = edge.kind,
                        !.live_count = IF inserted THEN @ + 1 ELSE @])]

\* the entry is kept when its live_count reaches 0
update_agg_on_remove_KeepEmpty(m, edge) ==
    LET key == AggEdgeKey(edge)
    IN  IF key \notin DOMAIN m.agg THEN m
        ELSE LET live == IF m.agg[key].live_count > 0 THEN m.agg[key].live_count - 1
                         ELSE m.agg[key].live_count
             IN  [m EXCEPT !.agg = Put(m.agg, key, [m.agg[key] EXCEPT !.live_count = live])]

update_agg_on_remove(m, edge) ==
    LET key == AggEdgeKey(edge)
    IN  IF key \notin DOMAIN m.agg THEN m
        ELSE LET live == IF m.agg[key].live_count > 0 THEN m.agg[key].live_count - 1
                         ELSE m.agg[key].live_count
             IN  IF live = 0 THEN [m EXCEPT !.agg = Del(m.agg, key)]
                 ELSE [m EXCEPT !.agg = Put(m.agg, key, [m.agg[key] EXCEPT !.live_count = live])]

\* rebuild_indices; order is the iteration order of the HashSet self.edges
RECURSIVE rebuild_from(_, _, _)
rebuild_from(m, order, now) ==
    IF order = <<>> THEN m
    ELSE rebuild_from(update_agg_on_upsert(insert_adj(m, Head(order)), Head(order), now, TRUE),
                      Tail(order), now)

rebuild_indices(m, order, now) ==
    rebuild_from([m EXCEPT !.adj = EmptyMap, !.agg = EmptyMap], order, now)

\* nodes.into_iter().collect(): a later pair of the Vec overwrites an earlier one
RECURSIVE collect_nodes(_, _)
collect_nodes(acc, nodes) ==
    IF nodes = <<>> THEN acc
    ELSE collect_nodes(Put(acc, Head(nodes)[1], Head(nodes)[2]), Tail(nodes))

load_snapshot_NoLastSeen(m, nodes, edges, order, now) ==
    LET ns == collect_nodes(EmptyMap, nodes)
    IN  rebuild_indices([m EXCEPT !.nodes = ns, !.edges = Range(edges),
                                  !.last_seen = EmptyMap], order, now)

load_snapshot(m, nodes, edges, order, now) ==
    LET ns == collect_nodes(EmptyMap, nodes)
    IN  rebuild_indices([m EXCEPT !.nodes = ns, !.edges = Range(edges),
                                  !.last_seen = [id \in DOMAIN ns |-> now]], order, now)

upsert_node(m, id, node, now) ==
    [m EXCEPT !.nodes = Put(m.nodes, id, node), !.last_seen = Put(m.last_seen, id, now)]

\* insert_adj runs on every call, not only when the raw edge is new
upsert_edge_AlwaysAdj(m, edge, now) ==
    LET inserted == edge \notin m.edges
        m1 == [m EXCEPT !.edges = @ \cup {edge}]
    IN  update_agg_on_upsert(insert_adj(m1, edge), edge, now, inserted)

upsert_edge(m, edge, now) ==
    LET inserted == edge \notin m.edges
        m1 == [m EXCEPT !.edges = @ \cup {edge}]
        m2 == IF inserted THEN insert_adj(m1, edge) ELSE m1
    IN  update_agg_on_upsert(m2, edge, now, inserted)

\* remove_edge returns whether the edge was present; RemoveEdgeModel is the model after it
remove_edge_ok(m, edge) == edge \in m.edges

remove_edge(m, edge) ==
    IF edge \in m.edges
    THEN update_agg_on_remove(remove_adj([m EXCEPT !.edges = @ \ {edge}], edge), edge)
    ELSE m

\* the loop of remove_node over the cloned adjacency list: <<model, removed>>
RECURSIVE remove_incident(_, _, _)
remove_incident(m, list, removed) ==
    IF list = <<>> THEN <<m, removed>>
    ELSE LET e == Head(list)
         IN  IF remove_edge_ok(m, e)
             THEN remove_incident(remove_edge(m, e), Tail(list), Append(removed, e))
             ELSE remove_incident(m, Tail(list), removed)

\* only the edges leaving id are removed
remove_node_OutgoingOnly(m, id) ==
    LET m1 == [m EXCEPT !.nodes = Del(m.nodes, id), !.last_seen = Del(m.last_seen, id)]
        Out(e) == e.from = id
        r == IF id \in DOMAIN m1.adj THEN remove_incident(m1, SelectSeq(m1.adj[id], Out), <<>>)
             ELSE <<m1, <<>> >>
    IN  << [r[1] EXCEPT !.adj = Del(r[1].adj, id)], r[2] >>

\* remove_node: <<model, removed edges>>
remove_node(m, id) ==
    LET m1 == [m EXCEPT !.nodes = Del(m.nodes, id), !.last_seen = Del(m.last_seen, id)]
        r == IF id \in DOMAIN m1.adj THEN remove_incident(m1, m1.adj[id], <<>>)
             ELSE <<m1, <<>> >>
    IN  << [r[1] EXCEPT !.adj = Del(r[1].adj, id)], r[2] >>

\* edges_for_node: the adjacency list filtered through self.edges.get
edges_for_node(m, id) ==
    IF id \in DOMAIN m.adj
    THEN LET Live(e) == e \in m.edges IN SelectSeq(m.adj[id], Live)
    ELSE <<>>

\* neighbours along outgoing edges only
neighbors_Outgoing(m, id) ==
    LET From(e) == e.from = id
        es == SelectSeq(edges_for_node(m, id), From)
    IN  [i \in DOMAIN es |-> es[i].to]

\* neighbors: the opposite endpoint of each incident edge
neighbors(m, id) ==
    LET es == edges_for_node(m, id)
    IN  [i \in DOMAIN es |-> IF es[i].from = id THEN es[i].to ELSE es[i].from]

-----------------------------------------------------------------------------
(* spacegraph-core: Delta and Msg *)

None == <<>>        \* Option::None (ids are non-empty sequences)

BatchBegin(id) == [type |-> "BatchBegin", id |-> id, node |-> None, edge |-> None]
BatchEnd(id) == [type |-> "BatchEnd", id |-> id, node |-> None, edge |-> None]
UpsertNode(id, node) == [type |-> "UpsertNode", id |-> id, node |-> node, edge |-> None]
RemoveNode(id) == [type |-> "RemoveNode", id |-> id, node |-> None, edge |-> None]
UpsertEdge(edge) == [type |-> "UpsertEdge", id |-> None, node |-> None, edge |-> edge]
RemoveEdge(edge) == [type |-> "RemoveEdge", id |-> None, node |-> None, edge |-> edge]

\* Msg; src and seq identify the emission (which watcher, which message of it) and are
\* not on the wire
Hello == [type |-> "Hello", delta |-> None, nodes |-> <<>>, edges |-> <<>>, src |-> "server", seq |-> 0]
Identity == [type |-> "Identity", delta |-> None, nodes |-> <<>>, edges |-> <<>>, src |-> "server", seq |-> 0]
Snapshot(nodes, edges) ==
    [type |-> "Snapshot", delta |-> None, nodes |-> nodes, edges |-> edges, src |-> "server", seq |-> 0]
Event(delta, src, seq) ==
    [type |-> "Event", delta |-> delta, nodes |-> <<>>, edges |-> <<>>, src |-> src, seq |-> seq]

-----------------------------------------------------------------------------
(* graph/timeline.rs: TimelineState *)

\* Instant - Duration never goes below the origin of the model's clock
Minus(a, b) == IF a > b THEN a - b ELSE 0

effective_now_from(tl, base_now) ==
    LET base == IF tl.frozen_now # None THEN tl.frozen_now[1] ELSE base_now
    IN  Minus(base, IF tl.scrub_seconds > 0 THEN tl.scrub_seconds ELSE 0)

window_start(tl, now) == Minus(now, tl.window)

record_node_upsert(tl, id, ts) ==
    LET e0 == IF id \in DOMAIN tl.node_life THEN tl.node_life[id]
              ELSE [first_seen |-> ts, last_seen |-> ts, removed_at |-> None]
        e1 == [e0 EXCEPT !.first_seen = IF ts < @ THEN ts ELSE @,
                         !.last_seen = IF ts > @ THEN ts ELSE @]
        e2 == IF e1.removed_at # None /\ ts >= e1.removed_at[1]
              THEN [e1 EXCEPT !.removed_at = None] ELSE e1
    IN  [tl EXCEPT !.node_life = Put(tl.node_life, id, e2)]

record_node_remove(tl, id, ts) ==
    LET e0 == IF id \in DOMAIN tl.node_life THEN tl.node_life[id]
              ELSE [first_seen |-> ts, last_seen |-> ts, removed_at |-> <<ts>>]
        e1 == [e0 EXCEPT !.first_seen = IF ts < @ THEN ts ELSE @,
                         !.last_seen = IF ts > @ THEN ts ELSE @,
                         !.removed_at = <<ts>>]
    IN  [tl EXCEPT !.node_life = Put(tl.node_life, id, e1)]

record_batch_begin(tl, id, ts) ==
    [tl EXCEPT !.batch_spans = Append(@, [id |-> id, start |-> ts, end |-> None])]

\* the most recent open span with this id gets its end
record_batch_end(tl, id, ts) ==
    LET open == {i \in DOMAIN tl.batch_spans :
                    tl.batch_spans[i].id = id /\ tl.batch_spans[i].end = None}
    IN  IF open = {} THEN tl
        ELSE LET i == CHOOSE x \in open : \A y \in open : y <= x
             IN  [tl EXCEPT !.batch_spans[i].end = <<ts>>]

\* the three pop_front loops of trim
RECURSIVE drop_over_cap(_, _)
drop_over_cap(events, cap) ==
    IF Len(events) > cap THEN drop_over_cap(Tail(events), cap) ELSE events

RECURSIVE drop_old_events(_, _)
drop_old_events(events, ws) ==
    IF events # <<>> /\ Head(events).ts < ws THEN drop_old_events(Tail(events), ws) ELSE events

RECURSIVE drop_old_spans(_, _)
drop_old_spans(spans, ws) ==
    IF spans # <<>> /\ Head(spans).end # None /\ Head(spans).end[1] < ws
    THEN drop_old_spans(Tail(spans), ws) ELSE spans

trim_NoCap(tl, now) ==
    LET ws == window_start(tl, now)
    IN  [tl EXCEPT !.events = drop_old_events(tl.events, ws),
                   !.batch_spans = drop_old_spans(tl.batch_spans, ws)]

trim(tl, now) ==
    LET ws == window_start(tl, now)
    IN  [tl EXCEPT !.events = drop_old_events(drop_over_cap(tl.events, tl.max_events), ws),
                   !.batch_spans = drop_old_spans(tl.batch_spans, ws)]

\* the interval with its end left at removed_at
node_life_interval_NoClamp(tl, id, now) ==
    IF id \notin DOMAIN tl.node_life THEN None
    ELSE LET life == tl.node_life[id]
             ws == window_start(tl, now)
             start == IF life.first_seen < ws THEN ws ELSE life.first_seen
             end == IF life.removed_at # None THEN life.removed_at[1] ELSE now
         IN  IF end <= start THEN None ELSE << <<start, end>> >>

\* TimelineState::node_life_interval: None, or Some((start, end))
node_life_interval(tl, id, now) ==
    IF id \notin DOMAIN tl.node_life THEN None
    ELSE LET life == tl.node_life[id]
             ws == window_start(tl, now)
             start == IF life.first_seen < ws THEN ws ELSE life.first_seen
             end0 == IF life.removed_at # None THEN life.removed_at[1] ELSE now
             end == IF end0 > now THEN now ELSE end0
         IN  IF end <= start THEN None ELSE << <<start, end>> >>

\* GraphState::push_timeline_at
push_timeline_at(st, ts, kind, a, b, ek) ==
    LET evt == [ts |-> ts, kind |-> kind, a |-> a, b |-> b, edge_kind |-> ek]
        tl == st.timeline
        tl1 == IF kind.tag = "NodeUpsert" /\ a # None THEN record_node_upsert(tl, a, ts)
               ELSE IF kind.tag = "NodeRemove" /\ a # None THEN record_node_remove(tl, a, ts)
               ELSE IF kind.tag = "BatchBegin" THEN record_batch_begin(tl, kind.id, ts)
               ELSE IF kind.tag = "BatchEnd" THEN record_batch_end(tl, kind.id, ts)
               ELSE tl
    IN  [st EXCEPT !.timeline = [tl1 EXCEPT !.events = Append(@, evt)]]

Kind(tag) == [tag |-> tag, id |-> 0]
BatchKind(tag, id) == [tag |-> tag, id |-> id]

\* GraphState::tick_timeline, with Instant::now() = now
tick_timeline(st, now) ==
    [st EXCEPT !.timeline = trim(st.timeline, effective_now_from(st.timeline, now))]

-----------------------------------------------------------------------------
(* graph/metrics.rs, graph/layout.rs: the parts apply() calls *)

on_message(st, now) ==
    [st EXCEPT !.perf.event_total = @ + 1, !.perf.ev_window = Append(@, now)]

RECURSIVE drop_old_instants(_, _, _)
drop_old_instants(w, now, window) ==
    IF w # <<>> /\ Minus(now, Head(w)) > window THEN drop_old_instants(Tail(w), now, window)
    ELSE w

\* tick_metrics: the rolling window of the last 2 s
tick_metrics(st, now) ==
    [st EXCEPT !.perf.ev_window = drop_old_instants(@, now, 2)]

mark_dirty_all(st) ==
    [st EXCEPT !.spatial.dirty_layout = TRUE, !.spatial.active_vis_cache = <<>>,
               !.spatial.progressive_cursor = 0, !.spatial.explain_cache = None]

-----------------------------------------------------------------------------
(* graph/state.rs: GraphState::apply and apply_delta *)

touch_node_at(st, id, ts) == [st EXCEPT !.model.last_seen = Put(@, id, ts)]

ClearIf(ptr, id) == IF ptr = id THEN None ELSE ptr

ApplyBatchBegin(st, id, ts) ==
    push_timeline_at(
        [st EXCEPT !.spatial.in_batch = TRUE, !.spatial.last_batch_id = <<id>>,
                   !.spatial.touched_nodes = {}, !.spatial.touched_edges = {}],
        ts, BatchKind("BatchBegin", id), None, None, None)

ApplyBatchEnd(st, id, ts) ==
    LET until == ts + st.cfg.glow_duration
        sp == st.spatial
    IN  push_timeline_at(
            [st EXCEPT !.spatial.in_batch = FALSE,
                       !.spatial.glow_nodes =
                           [x \in (DOMAIN sp.glow_nodes) \cup sp.touched_nodes |->
                               IF x \in sp.touched_nodes THEN until ELSE sp.glow_nodes[x]],
                       !.spatial.glow_edges =
                           [x \in (DOMAIN sp.glow_edges) \cup sp.touched_edges |->
                               IF x \in sp.touched_edges THEN until ELSE sp.glow_edges[x]],
                       !.spatial.touched_nodes = {}, !.spatial.touched_edges = {}],
            ts, BatchKind("BatchEnd", id), None, None, None)

ApplyUpsertNode(st, id, node, ts) ==
    LET s1 == [st EXCEPT !.model = upsert_node(st.model, id, node, ts),
                         !.spatial.dirty_layout = TRUE]
        s2 == push_timeline_at(s1, ts, Kind("NodeUpsert"), id, None, None)
    IN  IF s2.spatial.in_batch
        THEN [s2 EXCEPT !.spatial.touched_nodes = @ \cup {id}]
        ELSE [s2 EXCEPT !.spatial.glow_nodes = Put(@, id, ts + st.cfg.glow_duration)]

ApplyRemoveNode(st, id, ts) ==
    LET r == remove_node(st.model, id)
        gone == Range(r[2])
        s1 == [st EXCEPT !.model = r[1],
                         !.spatial.positions = @ \ {id},
                         !.spatial.velocities = @ \ {id},
                         !.spatial.glow_nodes = Del(@, id),
                         !.spatial.glow_edges = [e \in (DOMAIN @) \ gone |-> @[e]],
                         !.spatial.touched_edges = @ \ gone,
                         !.ui.focus = ClearIf(@, id),
                         !.ui.selected = ClearIf(@, id),
                         !.ui.selected_a = ClearIf(@, id),
                         !.ui.selected_b = ClearIf(@, id),
                         !.ui.hovered = ClearIf(@, id)]
        s2 == push_timeline_at(s1, ts, Kind("NodeRemove"), id, None, None)
        s3 == [s2 EXCEPT !.spatial.dirty_layout = TRUE]
    IN  IF s3.spatial.in_batch
        THEN [s3 EXCEPT !.spatial.touched_nodes = @ \cup {id}]
        ELSE s3

ApplyUpsertEdge(st, edge, ts) ==
    LET s1 == [st EXCEPT !.model = upsert_edge(st.model, edge, ts)]
        s2 == touch_node_at(touch_node_at(s1, edge.from, ts), edge.to, ts)
        s3 == [s2 EXCEPT !.spatial.dirty_layout = TRUE]
        s4 == push_timeline_at(s3, ts, Kind("EdgeUpsert"), edge.from, edge.to, edge.kind)
    IN  IF s4.spatial.in_batch
        THEN [s4 EXCEPT !.spatial.touched_edges = @ \cup {edge},
                        !.spatial.touched_nodes = @ \cup {edge.from, edge.to}]
        ELSE [s4 EXCEPT !.spatial.glow_edges = Put(@, edge, ts + st.cfg.glow_duration)]

ApplyRemoveEdge(st, edge, ts) ==
    LET s1 == [st EXCEPT !.model = remove_edge(st.model, edge),
                         !.spatial.glow_edges = Del(@, edge)]
    IN  push_timeline_at(s1, ts, Kind("EdgeRemove"), edge.from, edge.to, edge.kind)

apply_delta(st, d, ts) ==
    CASE d.type = "BatchBegin" -> ApplyBatchBegin(st, d.id, ts)
      [] d.type = "BatchEnd" -> ApplyBatchEnd(st, d.id, ts)
      [] d.type = "UpsertNode" -> ApplyUpsertNode(st, d.id, d.node, ts)
      [] d.type = "RemoveNode" -> ApplyRemoveNode(st, d.id, ts)
      [] d.type = "UpsertEdge" -> ApplyUpsertEdge(st, d.edge, ts)
      [] d.type = "RemoveEdge" -> ApplyRemoveEdge(st, d.edge, ts)

RECURSIVE record_upserts(_, _, _)
record_upserts(tl, ids, now) ==
    IF ids = {} THEN tl
    ELSE LET id == CHOOSE x \in ids : TRUE
         IN  record_upserts(record_node_upsert(tl, id, now), ids \ {id}, now)

\* the Snapshot arm of apply; order is the iteration order of the edge HashSet
ApplySnapshot(st, nodes, edges, order, now) ==
    LET InSnapshot(e) == e \in Range(edges)
        m == load_snapshot(st.model, nodes, edges, SelectSeq(order, InSnapshot), now)
        s1 == [st EXCEPT !.model = m,
                         !.timeline = record_upserts(st.timeline, DOMAIN m.nodes, now)]
    IN  mark_dirty_all(s1)

\* GraphState::apply(inc) at Instant now
apply(st, inc, order, now) ==
    LET s0 == on_message(st, now)
    IN  IF inc.type = "Snapshot" THEN ApplySnapshot(s0, inc.nodes, inc.edges, order, now)
        ELSE IF inc.type = "Event" THEN apply_delta(s0, inc.delta, now)
        ELSE s0

-----------------------------------------------------------------------------
(* graph/gc.rs *)

tick_glow(st, now) ==
    LET gn == st.spatial.glow_nodes
        ge == st.spatial.glow_edges
    IN  [st EXCEPT !.spatial.glow_nodes = [x \in {y \in DOMAIN gn : gn[y] > now} |-> gn[x]],
                   !.spatial.glow_edges = [x \in {y \in DOMAIN ge : ge[y] > now} |-> ge[x]]]

degree(m, id) ==
    Cardinality({e \in m.edges : e.from = id}) + Cardinality({e \in m.edges : e.to = id})

\* the candidates without the test for Node::File
gc_to_remove_AnyKind(st, now) ==
    {id \in DOMAIN st.model.nodes :
        /\ degree(st.model, id) = 0
        /\ LET last == IF id \in DOMAIN st.model.last_seen THEN st.model.last_seen[id] ELSE now
           IN  Minus(now, last) >= st.cfg.gc_ttl}

gc_to_remove(st, now) ==
    {id \in DOMAIN st.model.nodes :
        /\ degree(st.model, id) = 0
        /\ st.model.nodes[id].type = "File"
        /\ LET last == IF id \in DOMAIN st.model.last_seen THEN st.model.last_seen[id] ELSE now
           IN  Minus(now, last) >= st.cfg.gc_ttl}

gc_evict_KeepNode(st, dead) ==
    [st EXCEPT !.spatial.positions = @ \ dead,
               !.spatial.velocities = @ \ dead,
               !.spatial.glow_nodes = [x \in (DOMAIN @) \ dead |-> @[x]],
               !.model.last_seen = [x \in (DOMAIN @) \ dead |-> @[x]],
               !.ui.focus = IF @ \in dead THEN None ELSE @,
               !.ui.selected = IF @ \in dead THEN None ELSE @,
               !.ui.hovered = IF @ \in dead THEN None ELSE @]

gc_evict(st, dead) ==
    [st EXCEPT !.model.nodes = [x \in (DOMAIN @) \ dead |-> @[x]],
               !.spatial.positions = @ \ dead,
               !.spatial.velocities = @ \ dead,
               !.spatial.glow_nodes = [x \in (DOMAIN @) \ dead |-> @[x]],
               !.model.last_seen = [x \in (DOMAIN @) \ dead |-> @[x]],
               !.ui.focus = IF @ \in dead THEN None ELSE @,
               !.ui.selected = IF @ \in dead THEN None ELSE @,
               !.ui.hovered = IF @ \in dead THEN None ELSE @]

tick_gc(st, now) ==
    IF ~st.cfg.gc_enabled THEN st
    ELSE IF Minus(now, st.perf.gc_last_run) < st.cfg.gc_interval THEN st
    ELSE LET s1 == [st EXCEPT !.perf.gc_last_run = now]
         IN  gc_evict(s1, gc_to_remove(s1, now))

\* graph/metrics.rs tick_housekeeping
tick_housekeeping(st, now) ==
    tick_timeline(tick_gc(tick_metrics(tick_glow(st, now), now), now), now)

-----------------------------------------------------------------------------------------------------------------------------------------------------
(* spacegraph-viewer graph/layout.rs: filter and capped visible set *)

\* the characters of the model's strings, in byte order
Alphabet == <<" ", "0", "1", "2", "?", "B", "a", "b", "f", "n", "p", "r", "u">>

CharOrd(c) == CHOOSE i \in DOMAIN Alphabet : Alphabet[i] = c

\* str::to_lowercase ("B" is the alphabet's only uppercase character)
to_lowercase(s) == [i \in DOMAIN s |-> IF s[i] = "B" THEN "b" ELSE s[i]]

\* str::trim().is_empty(): nothing but whitespace
trim_is_empty(s) == \A i \in DOMAIN s : s[i] = " "

\* str::contains
contains(s, f) ==
    \E k \in 0..(Len(s) - Len(f)) : \A i \in DOMAIN f : s[k + i] = f[i]

passes_filter(st, id, node) ==
    IF trim_is_empty(st.ui.filter) THEN TRUE
    ELSE LET f == to_lowercase(st.ui.filter)
             id_ok == contains(to_lowercase(id), f)
             node_ok ==
                 IF node.type = "File" THEN contains(to_lowercase(node.path), f)
                 ELSE IF node.type = "Process"
                      THEN contains(to_lowercase(node.cmdline), f)
                              \/ contains(to_lowercase(node.exe), f)
                 ELSE contains(to_lowercase(node.name), f)
         IN  id_ok \/ node_ok

\* String::cmp on ids: byte-wise lexicographic
RECURSIVE id_less(_, _)
id_less(a, b) ==
    IF b = <<>> THEN FALSE
    ELSE IF a = <<>> THEN TRUE
    ELSE IF CharOrd(Head(a)) # CharOrd(Head(b)) THEN CharOrd(Head(a)) < CharOrd(Head(b))
    ELSE id_less(Tail(a), Tail(b))

\* v.sort_by(|a, b| a.0.cmp(&b.0))
sort_ids(S) ==
    CHOOSE v \in Orders(S) : \A i, j \in DOMAIN v : i < j => id_less(v[i], v[j])

truncate(v, n) == SubSeq(v, 1, IF Len(v) < n THEN Len(v) ELSE n)

\* the for loop over the neighbours of one dequeued node: <<vis, q>>
RECURSIVE bfs_neighbors(_, _, _, _, _)
bfs_neighbors(nbs, d, vis, q, max) ==
    IF nbs = <<>> THEN <<vis, q>>
    ELSE LET nb == Head(nbs)
             vis1 == vis \cup {nb}
             q1 == IF nb \notin vis THEN Append(q, <<nb, d + 1>>) ELSE q
         IN  IF Cardinality(vis1) >= max THEN <<vis1, q1>>
             ELSE bfs_neighbors(Tail(nbs), d, vis1, q1, max)

\* the while loop over the queue: the visited set when it ends
RECURSIVE bfs(_, _, _, _, _)
bfs(m, vis, q, hops, max) ==
    IF q = <<>> THEN vis
    ELSE LET cur == Head(q)[1]
             d == Head(q)[2]
         IN  IF d >= hops THEN bfs(m, vis, Tail(q), hops, max)
             ELSE LET r == bfs_neighbors(neighbors(m, cur), d, vis, Tail(q), max)
                  IN  IF Cardinality(r[1]) >= max THEN r[1]
                      ELSE bfs(m, r[1], r[2], hops, max)

\* the closing branch of visible_set_capped without its sort and truncate
cap_visible_NoTruncate(base, max) == base

\* the closing branch of visible_set_capped: sort by id and keep the first max
cap_visible(base, max) ==
    IF Cardinality(base) > max THEN Range(truncate(sort_ids(base), max)) ELSE base

visible_set_capped(st) ==
    LET max == st.cfg.max_visible_nodes
        passing == {id \in DOMAIN st.model.nodes : passes_filter(st, id, st.model.nodes[id])}
        base == IF st.ui.focus # None
                THEN LET focus == st.ui.focus
                         hops == IF st.ui.focus_hops < 1 THEN 1 ELSE st.ui.focus_hops
                         vis == bfs(st.model, {focus}, << <<focus, 0>> >>, hops, max)
                     IN  vis \cap (passing \cup {focus})
                ELSE passing
    IN  cap_visible(base, max)

-----
(* graph/explain.rs *)

PathStep(from, to, class) == [from |-> from, to |-> to, class |-> class]

\* the steps in the order the loop pushes them, the last step first
RECURSIVE reconstruct_path_NoReverse(_, _, _)
reconstruct_path_NoReverse(prev, start, end) ==
    IF end = start \/ end \notin DOMAIN prev THEN <<>>
    ELSE <<PathStep(prev[end][1], end, prev[end][2])>>
            \o reconstruct_path_NoReverse(prev, start, prev[end][1])

\* reconstruct_path: the walk back from end along prev, reversed
RECURSIVE reconstruct_path(_, _, _)
reconstruct_path(prev, start, end) ==
    IF end = start \/ end \notin DOMAIN prev THEN <<>>
    ELSE Append(reconstruct_path(prev, start, prev[end][1]),
                PathStep(prev[end][1], end, prev[end][2]))

\* the for loop over the edges of one dequeued node
RECURSIVE path_edges(_, _, _, _, _, _, _, _)
path_edges(es, cur, depth, b, allowed, visited, prev, q) ==
    IF es = <<>> THEN [found |-> FALSE, visited |-> visited, prev |-> prev, q |-> q]
    ELSE LET edge == Head(es)
             next == IF edge.from = cur THEN edge.to ELSE edge.from
             class == from_kind(edge.kind)
         IN  IF next \notin allowed \/ next \in visited
             THEN path_edges(Tail(es), cur, depth, b, allowed, visited, prev, q)
             ELSE IF next = b
                  THEN [found |-> TRUE, visited |-> visited \cup {next},
                        prev |-> Put(prev, next, <<cur, class>>), q |-> q]
                  ELSE path_edges(Tail(es), cur, depth, b, allowed, visited \cup {next},
                                  Put(prev, next, <<cur, class>>), Append(q, <<next, depth + 1>>))

\* the while loop over the queue: None, or Some(steps)
RECURSIVE path_search(_, _, _, _, _, _, _, _)
path_search(m, a, b, max_depth, allowed, visited, prev, q) ==
    IF q = <<>> THEN None
    ELSE LET cur == Head(q)[1]
             depth == Head(q)[2]
         IN  IF depth >= max_depth
             THEN path_search(m, a, b, max_depth, allowed, visited, prev, Tail(q))
             ELSE LET r == path_edges(edges_for_node(m, cur), cur, depth, b, allowed, visited,
                                      prev, Tail(q))
                  IN  IF r.found THEN <<reconstruct_path(r.prev, a, b)>>
                      ELSE path_search(m, a, b, max_depth, allowed, r.visited, r.prev, r.q)

shortest_path(m, a, b, max_depth, allowed) ==
    IF max_depth = 0 THEN None
    ELSE IF a = b THEN << <<>> >>
    ELSE IF a \notin allowed \/ b \notin allowed THEN None
    ELSE path_search(m, a, b, max_depth, allowed, {a}, EmptyMap, << <<a, 0>> >>)

-----
(* Input pools *)

P1 == id_process(<<"1">>)
P2 == id_process(<<"2">>)
U0 == id_user(<<"0">>)
FA == id_file(<<"a">>)

ModelIds == {P1, U0, FA}

NodeFor(id) ==
    IF id[1] = "p" THEN ProcessNode(Tail(id), <<"a">>, <<"B">>)
    ELSE IF id[1] = "u" THEN UserNode(Tail(id), <<"r">>)
    ELSE FileNode(Tail(id))

EdgePool ==
    { Edge(P1, FA, Opens(3, "r")), Edge(P1, FA, Opens(4, "w")),
      Edge(P1, U0, RunsAs), Edge(FA, FA, Execs) }

\* the node sets of the snapshots handed to load_snapshot
SnapNodeSets == { {}, {P1, FA}, ModelIds }

\* a Vec holding the elements of S (the order a caller happens to pass)
VecOf(S) == CHOOSE s \in Orders(S) : TRUE

-----------------------------------------------------------------------------
(* spacegraph-agent: watch_fs.rs coalescer, watch_proc.rs poller *)

FsFirstBatchId == 50000
ProcFirstBatchId == 1

\* a u64 is the sequence of its four 16-bit limbs, the most significant first
U64Limb == 2^16
u64(n) == <<0, 0, n \div U64Limb, n % U64Limb>>
U64Max == <<U64Limb - 1, U64Limb - 1, U64Limb - 1, U64Limb - 1>>

\* x + 1 from limb i upwards; the carry out of the top limb is dropped
RECURSIVE u64_carry(_, _)
u64_carry(x, i) ==
    IF i = 0 THEN x
    ELSE IF x[i] + 1 < U64Limb THEN [x EXCEPT ![i] = @ + 1]
    ELSE u64_carry([x EXCEPT ![i] = 0], i - 1)

\* an increment that stops at u64::MAX
wrapping_add_one_Saturating(x) == IF x = U64Max THEN x ELSE u64_carry(x, 4)

\* u64::wrapping_add(x, 1)
wrapping_add_one(x) == u64_carry(x, 4)

\* x % m for a small m
u64_rem(x, m) == ((((((x[1] % m) * U64Limb + x[2]) % m) * U64Limb + x[3]) % m) * U64Limb + x[4]) % m

\* the ids of the first n batches of a watcher whose first id is first
BatchIds(first, n) == {u64(first + k) : k \in 0..(n - 1)}

Paths == { <<"b">> }
Pids == { <<"1">>, <<"2">> }
\* what list_pids can return: pid 1 alone, pid 2 started, pid 1 exited
Listings == { {<<"1">>}, {<<"1">>, <<"2">>}, {} }

\* the rule as the comment above it words it: a pending Remove is kept
coalesce_RemoveDominates(pending, path, action) ==
    IF path \in DOMAIN pending
    THEN IF action = "Remove" THEN Put(pending, path, "Remove") ELSE pending
    ELSE Put(pending, path, action)

\* the and_modify/or_insert of the coalescer's recv branch
coalesce(pending, path, action) ==
    IF path \in DOMAIN pending
    THEN IF pending[path] # "Remove" /\ action = "Remove" THEN Put(pending, path, "Remove")
         ELSE IF action = "Upsert" THEN Put(pending, path, "Upsert")
         ELSE pending
    ELSE Put(pending, path, action)

fs_delta(pending, path) ==
    IF pending[path] = "Upsert" THEN UpsertNode(id_file(path), FileNode(path))
    ELSE RemoveNode(id_file(path))

Tagged(deltas, src, base) == [i \in DOMAIN deltas |-> Event(deltas[i], src, base + i)]

\* the sends of one coalescer tick; order is the drain order of the HashMap
fs_batch(pending, order, batch_id) ==
    <<BatchBegin(batch_id)>> \o [i \in DOMAIN order |-> fs_delta(pending, order[i])]
        \o <<BatchEnd(batch_id)>>

\* collect_process_detail: <<nodes, edges>>; fds are the entries of /proc/{pid}/fd
collect_process_detail(pid, fds) ==
    LET proc_id == id_process(pid)
        exe == <<"a">>
        nodes == << <<proc_id, ProcessNode(pid, exe, <<"B">>)>>,
                    <<id_user(<<"0">>), UserNode(<<"0">>, <<"r">>)>>,
                    <<id_file(exe), FileNode(exe)>> >>
        edges == << Edge(proc_id, id_user(<<"0">>), RunsAs), Edge(proc_id, id_file(exe), Execs) >>
                 \o [i \in DOMAIN fds |-> Edge(proc_id, id_file(fds[i].target),
                                               Opens(fds[i].fd, fds[i].mode))]
    IN  <<nodes, edges>>

\* the deltas the proc watcher sends for one new pid
new_pid_deltas(pid, detail) ==
    IF detail.ok
    THEN LET d == collect_process_detail(pid, detail.fds)
         IN  [i \in DOMAIN d[1] |-> UpsertNode(d[1][i][1], d[1][i][2])]
                \o [i \in DOMAIN d[2] |-> UpsertEdge(d[2][i])]
    ELSE << UpsertNode(id_process(pid), ProcessNode(pid, <<"?">>, <<"n">>)) >>

RECURSIVE Flatten(_)
Flatten(ss) == IF ss = <<>> THEN <<>> ELSE Head(ss) \o Flatten(Tail(ss))

\* the sends of one proc-watcher tick with a non-empty diff
proc_batch(new_order, gone_order, detail, batch_id) ==
    <<BatchBegin(batch_id)>>
        \o Flatten([i \in DOMAIN new_order |-> new_pid_deltas(new_order[i], detail)])
        \o [i \in DOMAIN gone_order |-> RemoveNode(id_process(gone_order[i]))]
        \o <<BatchEnd(batch_id)>>

\* what procfs can show for a new pid: detail unreadable, or readable with its fds
Details ==
    { [ok |-> FALSE, fds |-> <<>>],
      [ok |-> TRUE, fds |-> <<>>] }

\* the coalescer's recv branch
FsRecv ==
    /\ fs.outbox = <<>>
    /\ fs.batch_id \in BatchIds(FsFirstBatchId, MaxFsBatches)
    /\ \E path \in Paths, action \in {"Upsert", "Remove"} :
          fs' = [fs EXCEPT !.pending = coalesce(fs.pending, path, action)]

\* the coalescer's tick branch: nothing with an empty pending, else the batch becomes
\* the task's remaining sends; order is the drain order of the HashMap
fs_tick(w, order) ==
    IF w.pending = EmptyMap THEN w
    ELSE [w EXCEPT !.outbox = Tagged(fs_batch(w.pending, order, w.batch_id), "fs", w.emitted),
                   !.pending = EmptyMap]

FsTick ==
    /\ fs.outbox = <<>>
    /\ \E order \in Orders(DOMAIN fs.pending) : fs' = fs_tick(fs, order)

PasswdRefreshEvery == 80

\* the test of "refresh passwd occasionally" at the top of the loop
passwd_refresh_due(batch_id) == u64_rem(batch_id, PasswdRefreshEvery) = 0

\* a poll that leaves prev as it was
proc_tick_KeepPrev(w, cur, new_order, gone_order, detail) ==
    IF new_order = <<>> /\ gone_order = <<>> THEN w
    ELSE [w EXCEPT !.outbox = Tagged(proc_batch(new_order, gone_order, detail, w.batch_id),
                                     "proc", w.emitted)]

\* one pass of the loop after cur = list_pids(): new_order and gone_order are the
\* two differences, in the order the HashSet yields them
proc_tick(w, cur, new_order, gone_order, detail) ==
    IF new_order = <<>> /\ gone_order = <<>> THEN [w EXCEPT !.prev = cur]
    ELSE [w EXCEPT !.outbox = Tagged(proc_batch(new_order, gone_order, detail, w.batch_id),
                                     "proc", w.emitted),
                   !.prev = cur]

\* the task after its sleep: list_pids() returns one of listings
ProcPoll(listings, details) ==
    /\ proc.outbox = <<>>
    /\ \E cur \in listings, detail \in details :
          \E no \in Orders(cur \ proc.prev), go \in Orders(proc.prev \ cur) :
              proc' = proc_tick(proc, cur, no, go, detail)

\* one poll of the proc watcher
ProcTick(details) ==
    /\ proc.batch_id \in BatchIds(ProcFirstBatchId, MaxProcBatches)
    /\ ProcPoll(Listings, details)

\* a watcher task after one tx.send(..).await returned
after_send(w) ==
    [w EXCEPT !.outbox = Tail(@), !.emitted = @ + 1,
              !.batch_id = IF Len(w.outbox) = 1 THEN wrapping_add_one(@) ELSE @]

-----------------------------------------------------------------------------
(* spacegraph-agent path_policy.rs.  A path is the sequence of its components, the *)
(* root directory being the component "/".  The file system is fixed: directories *)
(* /a and /a/b, and /l a symbolic link to /a; the working directory is /.         *)

is_absolute(p) == p # <<>> /\ p[1] = "/"

\* Path::starts_with: base is a component-wise prefix of p
starts_with(p, base) == Len(base) <= Len(p) /\ SubSeq(p, 1, Len(base)) = base

\* the path made absolute and its symbolic links resolved
Resolve(p) ==
    LET abs == IF is_absolute(p) THEN p ELSE <<"/">> \o p
    IN  IF Len(abs) >= 2 /\ abs[2] = "l" THEN <<"/", "a">> \o SubSeq(abs, 3, Len(abs)) ELSE abs

\* Path::exists
Exists(p) == p # <<>> /\ Resolve(p) \in { <<"/">>, <<"/", "a">>, <<"/", "a", "b">> }

\* normalize_path: canonicalize a path that exists, keep one that does not
normalize_path(p) == IF Exists(p) THEN Resolve(p) ELSE p

normalize_exclude_path(p) == IF is_absolute(p) THEN normalize_path(p) ELSE p

\* PathPolicy::new followed by normalize
normalize(includes, excludes) ==
    [includes |-> [i \in DOMAIN includes |-> normalize_path(includes[i])],
     excludes |-> [i \in DOMAIN excludes |-> normalize_exclude_path(excludes[i])],
     path |-> <<>>, watch |-> FALSE]

is_excluded(pol, path) ==
    LET p == normalize_path(path)
    IN  \E i \in DOMAIN pol.excludes :
            LET exclude == pol.excludes[i]
            IN  IF is_absolute(exclude) THEN starts_with(p, exclude)
                ELSE \E k \in DOMAIN p : <<p[k]>> = exclude

is_included(pol, path) ==
    LET p == normalize_path(path)
    IN  \E i \in DOMAIN pol.includes : starts_with(p, pol.includes[i])

\* should_watch with the include test taken before the exclude test
should_watch_IncludeFirst(pol, path) ==
    IF pol.includes # <<>> /\ is_included(pol, path) THEN TRUE
    ELSE IF is_excluded(pol, path) THEN FALSE
    ELSE pol.includes = <<>>

should_watch(pol, path) ==
    IF is_excluded(pol, path) THEN FALSE
    ELSE IF pol.includes = <<>> THEN TRUE
    ELSE is_included(pol, path)

-----------------------------------------------------------------------------
(* The agent's snapshot, built once at start (snapshot.rs build_snapshot) *)

SnapNodes ==
    << <<P1, ProcessNode(<<"1">>, <<"a">>, <<"B">>)>>,
       <<U0, UserNode(<<"0">>, <<"r">>)>>,
       <<FA, FileNode(<<"a">>)>> >>

SnapEdges == << Edge(P1, U0, RunsAs), Edge(P1, FA, Execs) >>

snapshot_msg == Snapshot(SnapNodes, SnapEdges)

\* one Event{UpsertNode} per snapshot node, in the order of the snapshot's Vec
snapshot_node_events ==
    [i \in DOMAIN SnapNodes |-> Event(UpsertNode(SnapNodes[i][1], SnapNodes[i][2]), "backlog", i)]

-----------------------------------------------------------------------------
(* Initial values *)

InitClock == clock = 0

\* no GraphModel method called yet
NoCall == [op |-> "none", id |-> None, edge |-> None, n |-> 0, ret |-> <<>>]

InitModel == model = EmptyModel /\ call = NoCall

Viewers == {"v1", "v2"}

\* GraphState::default(), with the configurable durations scaled to the model's clock
InitEngine ==
    /\ spatial = [in_batch |-> FALSE, touched_nodes |-> {}, touched_edges |-> {},
                  glow_nodes |-> EmptyMap, glow_edges |-> EmptyMap, last_batch_id |-> None,
                  positions |-> {}, velocities |-> {},
                  active_vis_cache |-> <<>>, progressive_cursor |-> 0, dirty_layout |-> TRUE,
                  explain_cache |-> None]
    /\ timeline = [window |-> 2, pause |-> FALSE, frozen_now |-> None, scrub_seconds |-> 0,
                   events |-> <<>>, max_events |-> MaxEvents, node_life |-> EmptyMap,
                   batch_spans |-> <<>>]
    /\ ui = [filter |-> <<>>, focus |-> None, focus_hops |-> 2, hovered |-> None,
             selected |-> None, selected_a |-> None, selected_b |-> None]
    /\ perf = [event_total |-> 0, ev_window |-> <<>>, gc_last_run |-> 0]
    /\ cfg = [glow_duration |-> 1, max_visible_nodes |-> 2, gc_enabled |-> TRUE,
              gc_ttl |-> 1, gc_interval |-> 1, progressive_nodes_per_frame |-> 250,
              explain_max_depth |-> 4]
    /\ net_rx = <<>>
    /\ vis_out = None

\* the engine and the one reader thread of its stream, not yet connected
InitViewer ==
    /\ InitEngine
    /\ rd = [pc |-> "connect", shutdown |-> FALSE, frames |-> 0, last |-> "none",
             sent |-> <<>>, pumps |-> <<>>]

\* main's policy without --include/--exclude: one watch root, the excluded system
\* directories (here one)
DefaultPolicy == normalize(<< <<"/", "a">> >>, << <<"/", "b">> >>)

\* the proc watcher, the queues, the bus and the server after main() has set them up
InitPipeline ==
    /\ proc = [prev |-> {<<"1">>}, batch_id |-> u64(ProcFirstBatchId), outbox |-> <<>>, emitted |-> 0]
    /\ fs_q = <<>>
    /\ proc_q = <<>>
    /\ bus = <<>>
    /\ srv = [pc |-> "accept", cur |-> "", backlog |-> <<>>]
    /\ conn = [v \in Viewers |-> [state |-> "idle", inbox |-> "none", sent |-> <<>>, rx |-> 0,
                                  lagged |-> FALSE]]

\* the agent after main() has spawned the watchers and the forwarders
InitAgent ==
    /\ fs = [pending |-> EmptyMap, batch_id |-> u64(FsFirstBatchId), outbox |-> <<>>, emitted |-> 0]
    /\ policy = DefaultPolicy
    /\ InitPipeline

\* what Instant::now() can return: the last reading, or one unit later
Nows == {t \in {clock, clock + 1} : t <= MaxClock}

-----------------------------------------------------------------------------
(* SpecModel: any sequence of GraphModel operations *)

MLoadSnapshot ==
    \E ns \in SnapNodeSets, es \in SUBSET EdgePool :
        /\ Cardinality(es) <= MaxSnapEdges
        /\ \E order \in Orders(es) :
              /\ model' = load_snapshot(model, VecOf({<<id, NodeFor(id)>> : id \in ns}),
                                        VecOf(es), order, clock)
              /\ call' = [NoCall EXCEPT !.op = "load_snapshot"]

MUpsertNode ==
    \E id \in ModelIds :
        /\ model' = upsert_node(model, id, NodeFor(id), clock)
        /\ call' = [NoCall EXCEPT !.op = "upsert_node", !.id = id]

MRemoveNode ==
    \E id \in ModelIds :
        /\ model' = remove_node(model, id)[1]
        /\ call' = [NoCall EXCEPT !.op = "remove_node", !.id = id, !.ret = remove_node(model, id)[2]]

\* n calls of upsert_edge with the same edge
RECURSIVE upsert_edge_times(_, _, _, _)
upsert_edge_times(m, edge, n, now) ==
    IF n = 0 THEN m ELSE upsert_edge_times(upsert_edge(m, edge, now), edge, n - 1, now)

MUpsertEdge ==
    \E e \in EdgePool, n \in 1..MaxCount :
        /\ (IF AggEdgeKey(e) \in DOMAIN model.agg THEN model.agg[AggEdgeKey(e)].count ELSE 0) + n
              <= MaxCount
        /\ model' = upsert_edge_times(model, e, n, clock)
        /\ call' = [NoCall EXCEPT !.op = "upsert_edge", !.edge = e, !.n = n]

MRemoveEdge ==
    \E e \in EdgePool :
        /\ model' = remove_edge(model, e)
        /\ call' = [NoCall EXCEPT !.op = "remove_edge", !.edge = e, !.ret = remove_edge_ok(model, e)]

\* upsert_edge(e) followed by remove_edge(e), for an edge the model does not hold
MUpsertRemoveEdge ==
    \E e \in EdgePool \ model.edges :
        /\ (IF AggEdgeKey(e) \in DOMAIN model.agg THEN model.agg[AggEdgeKey(e)].count ELSE 0)
              < MaxCount
        /\ model' = remove_edge(upsert_edge(model, e, clock), e)
        /\ call' = [NoCall EXCEPT !.op = "upsert_remove", !.edge = e]

InitM == InitClock /\ InitModel /\ InitViewer /\ InitAgent

NextM ==
    \/ MLoadSnapshot /\ UNCHANGED <<clock, viewerVars, agentVars>>
    \/ MUpsertNode /\ UNCHANGED <<clock, viewerVars, agentVars>>
    \/ MRemoveNode /\ UNCHANGED <<clock, viewerVars, agentVars>>
    \/ MUpsertEdge /\ UNCHANGED <<clock, viewerVars, agentVars>>
    \/ MRemoveEdge /\ UNCHANGED <<clock, viewerVars, agentVars>>
    \/ MUpsertRemoveEdge /\ UNCHANGED <<clock, viewerVars, agentVars>>

SpecModel == InitM /\ [][NextM]_vars

\* C6: every aggregated entry's live_count is the number (> 0) of raw edges of its
\* (from, to, class), and every (from, to, class) with a raw edge has an entry.
AggMatchesRaw ==
    /\ \A k \in DOMAIN model.agg :
          LET n == Cardinality({e \in model.edges :
                        e.from = k.from /\ e.to = k.to /\ e.kind.type = k.class})
          IN  model.agg[k].live_count = n /\ n > 0
    /\ \A e \in model.edges :
          [from |-> e.from, to |-> e.to, class |-> e.kind.type] \in DOMAIN model.agg

\* an entry that counted a repeated upsert, next to one holding two live raw edges
AggWitness ==
    /\ \E k \in DOMAIN model.agg : model.agg[k].live_count = 1 /\ model.agg[k].count = 2
    /\ \E k \in DOMAIN model.agg : model.agg[k].live_count = 2
    /\ P1 \notin DOMAIN model.nodes

\* C7: for every node id edges_for_node(id) yields exactly the raw edges incident to
\* id, and no adjacency list holds an edge that is absent from model.edges.
AdjMatchesRaw ==
    /\ \A id \in ModelIds \cup DOMAIN model.adj :
          Range(edges_for_node(model, id)) = {e \in model.edges : e.from = id \/ e.to = id}
    /\ \A id \in DOMAIN model.adj : \A i \in DOMAIN model.adj[id] : model.adj[id][i] \in model.edges

\* a node with two incident edges left after a third edge at it was removed
AdjWitness ==
    /\ Cardinality(Range(edges_for_node(model, P1))) = 2
    /\ Edge(P1, FA, Opens(4, "w")) \notin model.edges
    /\ \E k \in DOMAIN model.agg : k.class = "Opens" /\ model.agg[k].count = 2
    /\ FA \notin DOMAIN model.nodes

\* the edges of a model at node id, and the number of times e stands in a list
Incident(m, id) == {e \in m.edges : e.from = id \/ e.to = id}
Occ(list, e) == Cardinality({i \in DOMAIN list : list[i] = e})
AdjOf(m, id) == IF id \in DOMAIN m.adj THEN m.adj[id] ELSE <<>>
AggOf(m, k) == IF k \in DOMAIN m.agg THEN m.agg[k]
               ELSE [count |-> 0, live_count |-> 0]

\* C17: remove_node(id) takes id out of nodes and last_seen, takes every raw edge with
\* from = id or to = id out of the raw set, out of both endpoints' adjacency lists and
\* out of the aggregated index, returns exactly those edges, and leaves every other
\* node, edge, adjacency entry and aggregated entry as it was.
RemoveNodeFrame ==
    [][call'.op = "remove_node" =>
        LET id == call'.id
            inc == Incident(model, id)
            Stays(e) == e \notin inc
        IN  /\ DOMAIN model'.nodes = DOMAIN model.nodes \ {id}
            /\ DOMAIN model'.last_seen = DOMAIN model.last_seen \ {id}
            /\ \A n \in DOMAIN model'.nodes : model'.nodes[n] = model.nodes[n]
            /\ \A n \in DOMAIN model'.last_seen : model'.last_seen[n] = model.last_seen[n]
            /\ model'.edges = model.edges \ inc
            /\ Range(call'.ret) = inc /\ Len(call'.ret) = Cardinality(inc)
            /\ id \notin DOMAIN model'.adj
            /\ \A n \in (DOMAIN model.adj \cup DOMAIN model'.adj) \ {id} :
                  AdjOf(model', n) = SelectSeq(AdjOf(model, n), Stays)
            /\ \A n \in DOMAIN model'.adj : model'.adj[n] # <<>>
            /\ DOMAIN model'.agg = {k \in DOMAIN model.agg : k.from # id /\ k.to # id}
            /\ \A k \in DOMAIN model'.agg : model'.agg[k] = model.agg[k]
    ]_vars

\* remove_node has just returned three edges at P1 while the self-edge of FA stayed
RemoveNodeWitness ==
    /\ call.op = "remove_node" /\ call.id = P1 /\ Len(call.ret) = 3
    /\ model.edges = {Edge(FA, FA, Execs)}
    /\ DOMAIN model.nodes = {U0, FA}

\* C18 as stated: n upserts of a raw edge the model did not hold leave one aggregated
\* entry for its (from, to, class) with count = n and live_count = 1.
UpsertTimesFromAbsent ==
    [][(call'.op = "upsert_edge" /\ call'.edge \notin model.edges) =>
        LET e == call'.edge
            k == AggEdgeKey(e)
        IN  /\ model'.edges = model.edges \cup {e}
            /\ k \in DOMAIN model'.agg
            /\ model'.agg[k].count = call'.n
            /\ model'.agg[k].live_count = 1
    ]_vars

\* C18 amended: n upserts of the same raw edge add it once to the raw set and once to
\* each endpoint's adjacency list if it was absent and leave both as they were if it
\* was present; the entry of its (from, to, class) gains n in count, and 1 in
\* live_count only if the raw edge was absent (count = n and live_count = 1 when the
\* model held no raw edge of that (from, to, class)).
UpsertTimesCounts ==
    [][call'.op = "upsert_edge" =>
        LET e == call'.edge
            k == AggEdgeKey(e)
            new == e \notin model.edges
            ends == {e.from, e.to}
        IN  /\ model'.edges = model.edges \cup {e}
            /\ \A x \in ends :
                  /\ x \in DOMAIN model'.adj
                  /\ Occ(model'.adj[x], e) = (IF e.from = e.to THEN 2 ELSE 1)
                  /\ \A o \in EdgePool \ {e} : Occ(model'.adj[x], o) = Occ(AdjOf(model, x), o)
            /\ \A x \in (DOMAIN model.adj \cup DOMAIN model'.adj) \ ends :
                  AdjOf(model', x) = AdjOf(model, x)
            /\ ~new => model'.adj = model.adj
            /\ k \in DOMAIN model'.agg
            /\ model'.agg[k].count = AggOf(model, k).count + call'.n
            /\ model'.agg[k].live_count = AggOf(model, k).live_count + (IF new THEN 1 ELSE 0)
            /\ (new /\ k \notin DOMAIN model.agg) =>
                  model'.agg[k].count = call'.n /\ model'.agg[k].live_count = 1
            /\ \A o \in DOMAIN model'.agg \ {k} : o \in DOMAIN model.agg /\ model'.agg[o] = model.agg[o]
            /\ DOMAIN model.agg \subseteq DOMAIN model'.agg
    ]_vars

\* the same edge upserted twice into a model that held no edge of its class
UpsertTimesWitness ==
    /\ call.op = "upsert_edge" /\ call.n = 2 /\ call.edge = Edge(P1, FA, Opens(3, "r"))
    /\ model.edges = {Edge(P1, FA, Opens(3, "r")), Edge(FA, FA, Execs)}
    /\ model.agg[AggEdgeKey(call.edge)].count = 2
    /\ model.agg[AggEdgeKey(call.edge)].live_count = 1

\* C19: upsert_edge(e) then remove_edge(e), on a model that did not hold e, gives back
\* the raw edge set and the adjacency lists; the aggregated entry of e is gone if no
\* other raw edge of its (from, to, class) is live, and is kept with the live_count it
\* had before the upsert (one less than after it) otherwise.
UpsertThenRemove ==
    [][call'.op = "upsert_remove" =>
        LET e == call'.edge
            k == AggEdgeKey(e)
        IN  /\ e \notin model.edges
            /\ model'.edges = model.edges
            /\ model'.adj = model.adj
            /\ DOMAIN model'.agg = DOMAIN model.agg
            /\ k \in DOMAIN model.agg =>
                  /\ model'.agg[k].live_count = model.agg[k].live_count
                  /\ model'.agg[k].live_count > 0
                  /\ model'.agg[k].count = model.agg[k].count + 1
            /\ \A o \in DOMAIN model'.agg \ {k} : model'.agg[o] = model.agg[o]
    ]_vars

\* the pair ran on Opens(4) next to a live Opens(3), and on the only RunsAs edge
UpsertThenRemoveWitness ==
    /\ call.op = "upsert_remove" /\ call.edge = Edge(P1, FA, Opens(4, "w"))
    /\ model.edges = {Edge(P1, FA, Opens(3, "r"))}
    /\ model.agg[AggEdgeKey(call.edge)].count = 2
    /\ model.agg[AggEdgeKey(call.edge)].live_count = 1

-----------------------------------------------------------------------------
(* SpecViewer: one viewer fed by the agent's watchers.  The path from a watcher's *)
(* send to the engine's queue (mpsc queue, forwarder, bus, server stream loop,    *)
(* socket, network reader) is one step here.                                      *)

GS == [model |-> model, spatial |-> spatial, timeline |-> timeline, ui |-> ui,
       perf |-> perf, cfg |-> cfg]

SetGS(st) ==
    /\ model' = st.model
    /\ spatial' = st.spatial
    /\ timeline' = st.timeline
    /\ ui' = st.ui
    /\ perf' = st.perf
    /\ cfg' = st.cfg

PumpTake == 100000

RECURSIVE apply_all(_, _, _, _)
apply_all(st, msgs, order, now) ==
    IF msgs = <<>> THEN st
    ELSE apply_all(apply(st, Head(msgs), order, now), Tail(msgs), order, now)

FirstN(s, n) == SubSeq(s, 1, IF Len(s) < n THEN Len(s) ELSE n)

\* app/mod.rs pump_network: apply up to 100_000 queued messages
pump_network(st, queue, order, now) == apply_all(st, FirstN(queue, PumpTake), order, now)

\* what rx.try_iter().take(n) leaves in the queue
try_iter_rest_Drain(queue, n) == <<>>

try_iter_rest(queue, n) == SubSeq(queue, Len(FirstN(queue, n)) + 1, Len(queue))

PumpNetwork ==
    /\ net_rx # <<>>
    /\ \E order \in Orders(Range(SnapEdges)), now \in Nows :
          /\ SetGS(pump_network(GS, net_rx, order, now))
          /\ clock' = now
    /\ net_rx' = SubSeq(net_rx, Len(FirstN(net_rx, PumpTake)) + 1, Len(net_rx))
    /\ UNCHANGED <<vis_out, rd, call, agentVars>>

Housekeeping ==
    /\ \E now \in Nows :
          /\ SetGS(tick_housekeeping(GS, now))
          /\ clock' = now
    /\ UNCHANGED <<net_rx, vis_out, rd, call, agentVars>>

\* the frames of the handshake with the Snapshot written first
Handshake_SnapshotFirst == <<snapshot_msg, Hello, Identity>> \o snapshot_node_events

\* server.rs: the frames written to a new connection before the stream loop
Handshake == <<Hello, Identity, snapshot_msg>> \o snapshot_node_events

\* the viewer connects: the server's handshake frames reach the engine's queue
VConnect ==
    /\ conn["v1"].state = "idle"
    /\ conn' = [conn EXCEPT !["v1"].state = "streaming", !["v1"].sent = @ \o Handshake]
    /\ net_rx' = net_rx \o Handshake
    /\ UNCHANGED <<clock, policy, model, call, spatial, timeline, ui, perf, cfg, vis_out, rd,
                   fs, proc, fs_q, proc_q, bus, srv>>

\* what a subscribed viewer's queue gets of a message put on the bus
Delivered(msg) == IF conn["v1"].state = "streaming" THEN <<msg>> ELSE <<>>

VFsRecv == FsRecv /\ UNCHANGED <<clock, policy, modelVars, viewerVars, proc, fs_q, proc_q, bus, srv, conn>>

VFsTick == FsTick /\ UNCHANGED <<clock, policy, modelVars, viewerVars, proc, fs_q, proc_q, bus, srv, conn>>

VProcTick == ProcTick(Details) /\ UNCHANGED <<clock, policy, modelVars, viewerVars, fs, fs_q, proc_q, bus, srv, conn>>

VFsDeliver ==
    /\ fs.outbox # <<>>
    /\ Len(net_rx) < NetBacklog
    /\ net_rx' = net_rx \o Delivered(Head(fs.outbox))
    /\ conn' = [conn EXCEPT !["v1"].sent = @ \o Delivered(Head(fs.outbox))]
    /\ fs' = after_send(fs)
    /\ UNCHANGED <<clock, policy, model, call, spatial, timeline, ui, perf, cfg, vis_out, rd,
                   proc, fs_q, proc_q, bus, srv>>

VProcDeliver ==
    /\ proc.outbox # <<>>
    /\ Len(net_rx) < NetBacklog
    /\ net_rx' = net_rx \o Delivered(Head(proc.outbox))
    /\ conn' = [conn EXCEPT !["v1"].sent = @ \o Delivered(Head(proc.outbox))]
    /\ proc' = after_send(proc)
    /\ UNCHANGED <<clock, policy, model, call, spatial, timeline, ui, perf, cfg, vis_out, rd,
                   fs, fs_q, proc_q, bus, srv>>

InitV == InitClock /\ InitModel /\ InitViewer /\ InitAgent

NextV ==
    \/ VConnect
    \/ VFsRecv
    \/ VFsTick
    \/ VProcTick
    \/ VFsDeliver
    \/ VProcDeliver
    \/ PumpNetwork
    \/ Housekeeping

SpecViewer == InitV /\ [][NextV]_vars

\* the frames the engine has applied so far: those sent and no longer queued
Applied == SubSeq(conn["v1"].sent, 1, Len(conn["v1"].sent) - Len(net_rx))

IsDelta(m, tag) == m.type = "Event" /\ m.delta.type = tag

\* BatchBegin(id) has been applied and BatchEnd(id) has not
BatchOpen(id) ==
    /\ \E i \in DOMAIN Applied : IsDelta(Applied[i], "BatchBegin") /\ Applied[i].delta.id = id
    /\ ~ \E i \in DOMAIN Applied : IsDelta(Applied[i], "BatchEnd") /\ Applied[i].delta.id = id

\* the engine applies exactly the one queued frame m in this step
PumpsOne(m) == net_rx = <<m>> /\ net_rx' = <<>>

\* C4 as claimed: while a batch is open at the viewer (its BatchBegin applied, its
\* BatchEnd not yet), applying an UpsertNode or UpsertEdge adds nothing to glow_nodes
\* or glow_edges.
NoGlowInsideBatch ==
    [][\A m \in Range(net_rx) :
          (/\ PumpsOne(m)
           /\ IsDelta(m, "UpsertNode") \/ IsDelta(m, "UpsertEdge")
           /\ \E id \in {u64(FsFirstBatchId), u64(ProcFirstBatchId)} : BatchOpen(id))
          => /\ spatial'.glow_nodes = spatial.glow_nodes
             /\ spatial'.glow_edges = spatial.glow_edges]_vars

\* C5 as claimed: every raw edge has both endpoints in model.nodes.
EdgeEndpointsExist ==
    \A e \in model.edges : e.from \in DOMAIN model.nodes /\ e.to \in DOMAIN model.nodes

\* C8: in every reachable viewer state last_seen[id] is defined for every id in
\* model.nodes.
LastSeenDefined == \A id \in DOMAIN model.nodes : id \in DOMAIN model.last_seen

Sent(tag, id) ==
    \E i \in DOMAIN Applied : IsDelta(Applied[i], tag) /\ Applied[i].delta.id = id

\* a snapshot and deltas were applied, and a GC tick has evicted the orphan file "b"
LastSeenWitness ==
    /\ Sent("UpsertNode", id_file(<<"b">>))
    /\ ~ Sent("RemoveNode", id_file(<<"b">>))
    /\ id_file(<<"b">>) \notin DOMAIN model.nodes
    /\ P1 \in DOMAIN model.nodes
    /\ \E id \in DOMAIN model.nodes : model.last_seen[id] > 0

-----------------------------------------------------------------------------
(* SpecAgent: watchers, their queues, the forwarders, the bus and the server *)

\* a watcher's tx.send(msg).await: waits while the queue is full
FsSend ==
    /\ fs.outbox # <<>>
    /\ Len(fs_q) < QueueCap
    /\ fs_q' = Append(fs_q, Head(fs.outbox))
    /\ fs' = after_send(fs)
    /\ UNCHANGED <<clock, policy, modelVars, viewerVars, proc, proc_q, bus, srv, conn>>

ProcSend ==
    /\ proc.outbox # <<>>
    /\ Len(proc_q) < QueueCap
    /\ proc_q' = Append(proc_q, Head(proc.outbox))
    /\ proc' = after_send(proc)
    /\ UNCHANGED <<clock, policy, modelVars, viewerVars, fs, fs_q, bus, srv, conn>>

\* a bus that puts a new message before the ones it holds
bus_send_Front(b, msg) == <<msg>> \o b

\* bus_tx.send(msg): the message becomes the newest of the bus
bus_send(b, msg) == Append(b, msg)

\* forward_to_bus for the fs watcher: one rx.recv() and bus_tx.send(msg)
FsForward ==
    /\ fs_q # <<>>
    /\ bus' = bus_send(bus, Head(fs_q))
    /\ fs_q' = Tail(fs_q)
    /\ UNCHANGED <<clock, policy, modelVars, viewerVars, fs, proc, proc_q, srv, conn>>

ProcForward ==
    /\ proc_q # <<>>
    /\ bus' = bus_send(bus, Head(proc_q))
    /\ proc_q' = Tail(proc_q)
    /\ UNCHANGED <<clock, policy, modelVars, viewerVars, fs, proc, fs_q, srv, conn>>

\* what a client writes after connecting: the viewer's Hello (uds.rs), a frame that
\* is not a Msg, or nothing
ClientFrames == {"hello", "junk", "none"}

\* a client connects to the socket and writes its first frame, if it sends one
VDial(v) ==
    /\ conn[v].state = "idle"
    /\ \E frame \in ClientFrames : conn' = [conn EXCEPT ![v].state = "open", ![v].inbox = frame]
    /\ srv' = [srv EXCEPT !.backlog = Append(@, v)]
    /\ UNCHANGED <<clock, policy, modelVars, viewerVars, fs, proc, fs_q, proc_q, bus>>

\* a viewer shuts its reader down
VClose(v) ==
    /\ conn[v].state = "open"
    /\ conn' = [conn EXCEPT ![v].state = "closed"]
    /\ UNCHANGED <<clock, policy, modelVars, viewerVars, fs, proc, fs_q, proc_q, bus, srv>>

\* a connection whose framed stream and bus receiver the server has dropped
Dropped == [state |-> "closed", inbox |-> "none", sent |-> <<>>, rx |-> 0, lagged |-> FALSE]

\* listener.accept() and bus_tx.subscribe(): the receiver starts at the bus's tail
SrvAccept ==
    /\ srv.pc = "accept"
    /\ srv.backlog # <<>>
    /\ srv' = [srv EXCEPT !.pc = "first", !.cur = Head(srv.backlog), !.backlog = Tail(@)]
    /\ conn' = [conn EXCEPT ![Head(srv.backlog)].rx = Len(bus)]
    /\ UNCHANGED <<clock, policy, modelVars, viewerVars, fs, proc, fs_q, proc_q, bus>>

\* framed.next().await returns: a frame has arrived (its content is ignored), or the
\* client has closed the stream; with neither, the server waits here
SrvFirstFrame ==
    /\ srv.pc = "first"
    /\ conn[srv.cur].inbox # "none" \/ conn[srv.cur].state = "closed"
    /\ srv' = [srv EXCEPT !.pc = "handshake"]
    /\ conn' = [conn EXCEPT ![srv.cur].inbox = "none"]
    /\ UNCHANGED <<clock, policy, modelVars, viewerVars, fs, proc, fs_q, proc_q, bus>>

\* the framed.send calls of the handshake; a write error returns from run
SrvHandshakeSend ==
    /\ srv.pc = "handshake"
    /\ IF conn[srv.cur].state = "closed"
       THEN /\ srv' = [srv EXCEPT !.pc = "dead"]
            /\ conn' = [conn EXCEPT ![srv.cur] = Dropped]
       ELSE /\ conn' = [conn EXCEPT ![srv.cur].sent = @ \o Handshake]
            /\ srv' = [srv EXCEPT !.pc = "stream"]
    /\ UNCHANGED <<clock, policy, modelVars, viewerVars, fs, proc, fs_q, proc_q, bus>>

\* the receiver of the connection fell behind by more than the bus holds
Lagging(v) == Len(bus) - conn[v].rx > BusCap

\* a receiver that on Lagged skips everything the bus holds
SrvStreamLagged_SkipToNewest ==
    /\ srv.pc = "stream"
    /\ Lagging(srv.cur)
    /\ conn' = [conn EXCEPT ![srv.cur].rx = Len(bus), ![srv.cur].lagged = TRUE]
    /\ UNCHANGED <<clock, policy, modelVars, viewerVars, fs, proc, fs_q, proc_q, bus, srv>>

\* bus_rx.recv() returns Lagged: the receiver skips to the oldest message still held
SrvStreamLagged ==
    /\ srv.pc = "stream"
    /\ Lagging(srv.cur)
    /\ conn' = [conn EXCEPT ![srv.cur].rx = Len(bus) - BusCap, ![srv.cur].lagged = TRUE]
    /\ UNCHANGED <<clock, policy, modelVars, viewerVars, fs, proc, fs_q, proc_q, bus, srv>>

\* bus_rx.recv() returns Ok(msg) and the frame is written; a write error ends the loop
SrvStreamSend ==
    /\ srv.pc = "stream"
    /\ ~ Lagging(srv.cur)
    /\ conn[srv.cur].rx < Len(bus)
    /\ IF conn[srv.cur].state = "closed"
       THEN /\ srv' = [srv EXCEPT !.pc = "accept"]
            /\ conn' = [conn EXCEPT ![srv.cur] = Dropped]
       ELSE /\ srv' = srv
            /\ conn' = [conn EXCEPT ![srv.cur].rx = @ + 1,
                                    ![srv.cur].sent = Append(@, bus[conn[srv.cur].rx + 1])]
    /\ UNCHANGED <<clock, policy, modelVars, viewerVars, fs, proc, fs_q, proc_q, bus>>

AFsRecv == FsRecv /\ UNCHANGED <<clock, policy, modelVars, viewerVars, proc, fs_q, proc_q, bus, srv, conn>>

AFsTick == FsTick /\ UNCHANGED <<clock, policy, modelVars, viewerVars, proc, fs_q, proc_q, bus, srv, conn>>

\* the batches' payload is opaque to the queues, the bus and the server: here procfs
\* shows no detail for a new pid, which gives the shortest batch
AProcTick == ProcTick({d \in Details : ~ d.ok}) /\ UNCHANGED <<clock, policy, modelVars, viewerVars, fs, fs_q, proc_q, bus, srv, conn>>

InitA == InitClock /\ InitModel /\ InitViewer /\ InitAgent

NextA ==
    \/ AFsRecv
    \/ AFsTick
    \/ AProcTick
    \/ FsSend
    \/ ProcSend
    \/ FsForward
    \/ ProcForward
    \/ \E v \in Viewers : VDial(v)
    \/ \E v \in Viewers : VClose(v)
    \/ SrvAccept
    \/ SrvFirstFrame
    \/ SrvHandshakeSend
    \/ SrvStreamLagged
    \/ SrvStreamSend

SpecAgent == InitA /\ [][NextA]_vars

Live(m) == m.type = "Event" /\ m.src \in {"fs", "proc"}

\* C1: on every connection the server sends Hello, then Identity, then Snapshot, then
\* the snapshot-node backlog in its stored order, and only then deltas taken from the
\* bus; no delta from the bus is sent before the backlog is complete.
HandshakeBeforeLive ==
    \A v \in Viewers :
        LET s == conn[v].sent
            n == Len(snapshot_node_events)
        IN  /\ Len(s) >= 1 => s[1] = Hello
            /\ Len(s) >= 2 => s[2] = Identity
            /\ Len(s) >= 3 => s[3] = snapshot_msg
            /\ \A i \in 1..n : Len(s) >= 3 + i => s[3 + i] = snapshot_node_events[i]
            /\ \A i \in DOMAIN s : Live(s[i]) <=> i > 3 + n

\* a viewer has been sent the whole handshake and then a delta from the bus
HandshakeWitness ==
    \E v \in Viewers :
        /\ Len(conn[v].sent) > 3 + Len(snapshot_node_events)
        /\ Live(conn[v].sent[Len(conn[v].sent)])

\* C2 as claimed: a viewer that has connected while the server streams to another
\* viewer is accepted without waiting for that viewer to disconnect.
SecondViewerAccepted ==
    \A w \in Viewers :
        (/\ srv.pc = "stream"
         /\ conn[srv.cur].state = "open"
         /\ conn[w].state = "open"
         /\ w \in Range(srv.backlog))
        => ENABLED SrvAccept

\* the seq numbers of the frames of one watcher in a viewer's stream
SeqsOf(s, src) == LET From(m) == Live(m) /\ m.src = src IN
    [i \in DOMAIN SelectSeq(s, From) |-> SelectSeq(s, From)[i].seq]

Increasing(q) == \A i \in DOMAIN q : i > 1 => q[i] > q[i - 1]

Contiguous(q) == \A i \in DOMAIN q : i > 1 => q[i] = q[i - 1] + 1

NodeIdsOf(nodes) == {nodes[i][1] : i \in DOMAIN nodes}

\* the node ids of the graph after the node deltas of msgs, starting from ids
RECURSIVE nodes_after(_, _)
nodes_after(ids, msgs) ==
    IF msgs = <<>> THEN ids
    ELSE LET m == Head(msgs)
         IN  nodes_after(IF IsDelta(m, "UpsertNode") THEN ids \cup {m.delta.id}
                         ELSE IF IsDelta(m, "RemoveNode") THEN ids \ {m.delta.id}
                         ELSE ids, Tail(msgs))

\* C11 as claimed: the Snapshot a viewer reads on a connection reflects every delta
\* the agent broadcast before that connection was accepted.
SnapshotReflectsBroadcast ==
    \A v \in Viewers :
        (Len(conn[v].sent) = Len(Handshake) /\ ~ conn[v].lagged)
        => NodeIdsOf(conn[v].sent[3].nodes)
              = nodes_after(NodeIdsOf(SnapNodes), SubSeq(bus, 1, conn[v].rx))

\* C12 as claimed: a write error on a viewer connection, in the handshake or in the
\* stream loop, never ends server::run (the server goes back to accepting).
ServerSurvivesWriteError == srv.pc # "dead"

\* C13 as claimed: the server does not need a first frame from a client that keeps
\* its connection open: the wait for it always ends and the handshake is sent.
FirstFrameOptional ==
    (srv.pc = "first" /\ conn[srv.cur].state = "open") => ENABLED SrvFirstFrame

\* the deltas from the bus written to a viewer
LiveSent(v) == SelectSeq(conn[v].sent, Live)

\* C14: a connection whose receiver reported Lagged stays in the stream loop, the
\* server can always go on reading the bus for it, it misses only messages the bus no
\* longer held, and neither the watchers nor the forwarders ever wait for it.
LaggedKeepsStreaming ==
    /\ \A v \in Viewers : conn[v].lagged => (srv.cur = v /\ srv.pc = "stream")
    /\ (srv.pc = "stream" /\ conn[srv.cur].state = "open" /\ conn[srv.cur].rx < Len(bus))
          => (ENABLED SrvStreamSend \/ ENABLED SrvStreamLagged)
    /\ \A v \in Viewers :
          LiveSent(v) # <<>> =>
              \A i \in 1..conn[v].rx :
                  ((\E j \in 1..i : bus[j] = LiveSent(v)[1]) /\ bus[i] \notin Range(LiveSent(v)))
                  => i <= Len(bus) - BusCap
    /\ fs_q # <<>> => ENABLED FsForward
    /\ proc_q # <<>> => ENABLED ProcForward
    /\ (fs.outbox # <<>> /\ Len(fs_q) < QueueCap) => ENABLED FsSend
    /\ (proc.outbox # <<>> /\ Len(proc_q) < QueueCap) => ENABLED ProcSend

\* a viewer that lagged, missed a message after the first one it got, and was then
\* sent a later message
LagWitness ==
    \E v \in Viewers :
        /\ conn[v].lagged
        /\ Len(LiveSent(v)) >= 2
        /\ LiveSent(v)[Len(LiveSent(v))] = bus[conn[v].rx]
        /\ \E i \in 1..conn[v].rx :
              /\ \E j \in 1..i : bus[j] = LiveSent(v)[1]
              /\ bus[i] \notin Range(LiveSent(v))

-----------------------------------------------------------------------------
(* SpecCoalesce: the fs watcher's coalescer over two paths; fs.seen is the history *)
(* of the (path, action) pairs received in the current window                     *)

MaxWindowEvents == 4     \* most events received in one window

CPaths == { <<"a">>, <<"b">> }

InitC ==
    /\ InitClock /\ InitModel /\ InitViewer /\ InitPipeline
    /\ fs = [pending |-> EmptyMap, batch_id |-> u64(FsFirstBatchId), outbox |-> <<>>, emitted |-> 0,
             seen |-> <<>>]
    /\ policy = DefaultPolicy

\* the coalescer's recv branch
CRecv ==
    /\ fs.outbox = <<>>
    /\ fs.batch_id \in BatchIds(FsFirstBatchId, MaxFsBatches)
    /\ Len(fs.seen) < MaxWindowEvents
    /\ \E path \in CPaths, action \in {"Upsert", "Remove"} :
          fs' = [fs EXCEPT !.pending = coalesce(fs.pending, path, action),
                           !.seen = IF fs.pending = EmptyMap THEN << <<path, action>> >>
                                    ELSE Append(@, <<path, action>>)]
    /\ UNCHANGED <<clock, policy, modelVars, viewerVars, proc, fs_q, proc_q, bus, srv, conn>>

CTick == FsTick /\ UNCHANGED <<clock, policy, modelVars, viewerVars, proc, fs_q, proc_q, bus, srv, conn>>

NextC == CRecv \/ CTick \/ FsSend \/ FsForward

SpecCoalesce == InitC /\ [][NextC]_vars

\* the action of the last event received for path
LastAction(seen, path) ==
    LET idx == {i \in DOMAIN seen : seen[i][1] = path}
    IN  seen[CHOOSE i \in idx : \A j \in idx : j <= i][2]

SeenPaths == {fs.seen[i][1] : i \in DOMAIN fs.seen}

\* every message the coalescer has emitted or is about to send, oldest first
FsEmitted == bus \o fs_q \o fs.outbox

\* the deltas of the last batch emitted, BatchBegin and BatchEnd included
LastBatch ==
    LET begins == {i \in DOMAIN FsEmitted : IsDelta(FsEmitted[i], "BatchBegin")}
        b == CHOOSE i \in begins : \A j \in begins : j <= i
    IN  [i \in 1..(Len(FsEmitted) - b + 1) |-> FsEmitted[b + i - 1].delta]

-----------------------------------------------------------------------------
(* SpecPolicy: should_watch over policies and paths *)

MaxPolicyPaths == 2      \* most includes, and most excludes, of a policy
MaxPathLen == 3          \* most components of a queried path

Names == {"a", "b", "l"}

\* the paths should_watch is asked about: absolute and relative
PathPool ==
    {p \in UNION {[1..n -> Names \cup {"/"}] : n \in 1..MaxPathLen} :
        \A i \in DOMAIN p : p[i] = "/" => i = 1}

IncludePool == { <<"/", "a">>, <<"/", "l">>, <<"/", "a", "b">>, <<"a">> }

ExcludePool == { <<"/", "a", "b">>, <<"/", "l">>, <<"/", "b">>, <<"b">>, <<"l">> }

InitPolicy ==
    /\ InitClock /\ InitModel /\ InitViewer /\ InitPipeline
    /\ fs = [pending |-> EmptyMap, batch_id |-> u64(FsFirstBatchId), outbox |-> <<>>, emitted |-> 0]
    /\ \E inc \in SUBSET IncludePool, exc \in SUBSET ExcludePool :
          /\ Cardinality(inc) <= MaxPolicyPaths
          /\ Cardinality(exc) <= MaxPolicyPaths
          /\ policy = normalize(VecOf(inc), VecOf(exc))

\* a caller (the notify callback, add_watch_recursive) asks about a path
ShouldWatch ==
    /\ \E path \in PathPool :
          policy' = [policy EXCEPT !.path = path, !.watch = should_watch(policy, path)]
    /\ UNCHANGED <<clock, modelVars, viewerVars, fs, proc, fs_q, proc_q, bus, srv, conn>>

NextPolicy == ShouldWatch

SpecPolicy == InitPolicy /\ [][NextPolicy]_vars

\* an exclude matches p: an absolute one as a prefix, a relative one as a component
ExcludeMatches(exclude, p) ==
    IF is_absolute(exclude) THEN starts_with(p, exclude)
    ELSE \E k \in DOMAIN p : <<p[k]>> = exclude

\* the claim's condition, read on the path p
Watched(p) ==
    /\ ~ \E i \in DOMAIN policy.excludes : ExcludeMatches(policy.excludes[i], p)
    /\ \/ policy.includes = <<>>
       \/ \E i \in DOMAIN policy.includes : starts_with(p, policy.includes[i])

\* C16 as claimed: should_watch(p) is true iff no exclude matches p and (includes is
\* empty or some include is a component-wise prefix of p).
ShouldWatchByPrefix == policy.path # <<>> => (policy.watch <=> Watched(policy.path))

\* C16, amended: should_watch(p) is true iff no exclude matches q and (includes is
\* empty or some include is a component-wise prefix of q), q being the canonical form
\* of p if p exists and p itself otherwise; a path whose q is under both an include
\* and an exclude is never watched.
ShouldWatchNormalized ==
    policy.path # <<>> =>
        LET q == normalize_path(policy.path)
        IN  /\ policy.watch <=> Watched(q)
            /\ ((\E i \in DOMAIN policy.includes : starts_with(q, policy.includes[i]))
                 /\ (\E i \in DOMAIN policy.excludes : ExcludeMatches(policy.excludes[i], q)))
                => ~ policy.watch

\* a path that is, through the link /l, under an include and under an exclude was
\* asked about, and refused
ShouldWatchWitness ==
    /\ policy.path = <<"/", "l", "b">>
    /\ policy.includes = << <<"/", "a">> >>
    /\ <<"/", "a", "b">> \in Range(policy.excludes)
    /\ ~ policy.watch

-----------------------------------------------------------------------------
(* SpecVis: visible_set_capped over models, filters, focus and caps *)

MaxVisible == 2      \* largest max_visible_nodes
MaxHops == 2         \* largest focus_hops

Filters == { <<>>, <<" ">>, <<"a">>, <<"B">>, <<"p">>, <<"r">>, <<"1">>, <<"n">> }

InitVis ==
    /\ InitClock /\ InitViewer /\ InitAgent
    /\ call = NoCall
    /\ \E ns \in SnapNodeSets, es \in SUBSET EdgePool :
          /\ Cardinality(es) <= MaxSnapEdges
          /\ model = load_snapshot(EmptyModel, VecOf({<<id, NodeFor(id)>> : id \in ns}),
                                   VecOf(es), VecOf(es), 0)

\* the UI edits the filter text
SetFilter ==
    /\ \E f \in Filters : ui' = [ui EXCEPT !.filter = f]
    /\ UNCHANGED <<clock, model, call, spatial, timeline, perf, cfg, net_rx, vis_out, rd, agentVars>>

\* the UI sets or clears the focus and the hop count
SetFocus ==
    /\ \E focus \in {None} \cup ModelIds \cup {P2}, hops \in 0..MaxHops :
          ui' = [ui EXCEPT !.focus = focus, !.focus_hops = hops]
    /\ UNCHANGED <<clock, model, call, spatial, timeline, perf, cfg, net_rx, vis_out, rd, agentVars>>

\* the settings panel changes max_visible_nodes
SetMaxVisible ==
    /\ \E n \in 0..MaxVisible : cfg' = [cfg EXCEPT !.max_visible_nodes = n]
    /\ UNCHANGED <<clock, model, call, spatial, timeline, ui, perf, net_rx, vis_out, rd, agentVars>>

\* update_layout_or_timeline calls visible_set_capped
VisibleSetCapped ==
    /\ vis_out' = <<[ids |-> visible_set_capped(GS), max |-> cfg.max_visible_nodes]>>
    /\ UNCHANGED <<clock, model, call, spatial, timeline, ui, perf, cfg, net_rx, rd, agentVars>>

NextVis == SetFilter \/ SetFocus \/ SetMaxVisible \/ VisibleSetCapped

SpecVis == InitVis /\ [][NextVis]_vars

\* C10: whatever the model, filter, focus, focus_hops and max_visible_nodes,
\* visible_set_capped() returns at most max_visible_nodes ids.
VisibleWithinCap ==
    /\ Cardinality(visible_set_capped(GS)) <= cfg.max_visible_nodes
    /\ vis_out # None => Cardinality(vis_out[1].ids) <= vis_out[1].max

\* a focused call whose hop search visited more nodes than the cap allows
VisibleCapWitness ==
    /\ vis_out = <<[ids |-> visible_set_capped(GS), max |-> cfg.max_visible_nodes]>>
    /\ ui.focus # None
    /\ cfg.max_visible_nodes > 0
    /\ Cardinality(vis_out[1].ids) = cfg.max_visible_nodes
    /\ Cardinality(bfs(model, {ui.focus}, << <<ui.focus, 0>> >>,
                       IF ui.focus_hops < 1 THEN 1 ELSE ui.focus_hops,
                       cfg.max_visible_nodes)) > cfg.max_visible_nodes

-----------------------------------------------------------------------------
(* SpecUi: the viewer's engine fed any frames of the protocol, one at a time, with *)
(* the layout placing nodes and the user hovering and picking them.               *)

MaxUiMsgs == 5

UiEdge == Edge(P1, FA, Opens(3, "r"))

\* the frames a peer sends: the Snapshot of a (re)connection and any delta
UiFrames ==
    { Snapshot(<< <<P1, NodeFor(P1)>>, <<FA, NodeFor(FA)>> >>, <<>>) } \cup
    { Event(d, "peer", 0) :
        d \in { BatchBegin(u64(1)), BatchEnd(u64(1)), RemoveNode(P1), UpsertEdge(UiEdge),
                RemoveEdge(UiEdge) } }

\* net/uds.rs: the reader forwards a decoded frame to the engine's queue
UiRecv ==
    /\ Len(net_rx) < NetBacklog
    /\ perf.event_total + Len(net_rx) < MaxUiMsgs
    /\ \E f \in UiFrames : net_rx' = Append(net_rx, f)
    /\ UNCHANGED <<clock, policy, model, call, spatial, timeline, ui, perf, cfg, vis_out, rd,
                   agentVars>>

\* progressive_prepare with the cursor advanced by take, not bounded by the cache
progressive_prepare_NoMin(st, vis) ==
    LET sp == st.spatial
        reset == sp.active_vis_cache = <<>> \/ sp.dirty_layout
        cache == IF reset THEN sort_ids(vis) ELSE sp.active_vis_cache
        start == IF reset THEN 0 ELSE sp.progressive_cursor
        take == IF st.cfg.progressive_nodes_per_frame < 1 THEN 1
                ELSE st.cfg.progressive_nodes_per_frame
        end == IF start + take < Len(cache) THEN start + take ELSE Len(cache)
        slice == {cache[i] : i \in (start + 1)..end}
    IN  [st EXCEPT !.spatial.active_vis_cache = cache,
                   !.spatial.positions = @ \cup (slice \cap DOMAIN st.model.nodes),
                   !.spatial.velocities = @ \cup slice,
                   !.spatial.progressive_cursor = start + take,
                   !.spatial.dirty_layout = IF end >= Len(cache) THEN FALSE ELSE @]

\* GraphState::progressive_prepare: the cache and the cursor are reset when the cache
\* is empty or the layout is dirty, then the slice [cursor, cursor + take) is placed
progressive_prepare(st, vis) ==
    LET sp == st.spatial
        reset == sp.active_vis_cache = <<>> \/ sp.dirty_layout
        cache == IF reset THEN sort_ids(vis) ELSE sp.active_vis_cache
        start == IF reset THEN 0 ELSE sp.progressive_cursor
        take == IF st.cfg.progressive_nodes_per_frame < 1 THEN 1
                ELSE st.cfg.progressive_nodes_per_frame
        end == IF start + take < Len(cache) THEN start + take ELSE Len(cache)
        slice == {cache[i] : i \in (start + 1)..end}
    IN  [st EXCEPT !.spatial.active_vis_cache = cache,
                   !.spatial.positions = @ \cup (slice \cap DOMAIN st.model.nodes),
                   !.spatial.velocities = @ \cup slice,
                   !.spatial.progressive_cursor = end,
                   !.spatial.dirty_layout = IF end >= Len(cache) THEN FALSE ELSE @]

\* update_layout_or_timeline in the spatial view
UiLayout ==
    /\ SetGS(progressive_prepare(GS, visible_set_capped(GS)))
    /\ UNCHANGED <<clock, policy, call, net_rx, vis_out, rd, agentVars>>

\* hover_detection_spatial: the nearest placed node under the cursor, or none
UiHover ==
    /\ \E h \in {None} \cup spatial.positions : ui' = [ui EXCEPT !.hovered = h]
    /\ UNCHANGED <<clock, policy, model, call, spatial, timeline, perf, cfg, net_rx, vis_out, rd,
                   agentVars>>

\* picking_focus and apply_picked_focus: a click on a placed node
UiPick ==
    /\ \E id \in spatial.positions :
          ui' = [ui EXCEPT !.focus = id, !.selected = id, !.selected_a = id,
                           !.selected_b = None]
    /\ UNCHANGED <<clock, policy, model, call, spatial, timeline, perf, cfg, net_rx, vis_out, rd,
                   agentVars>>

\* render/timeline.rs: a click on a node event or an edge event of the timeline
UiTimelinePick ==
    /\ \E i \in DOMAIN timeline.events :
          LET ev == timeline.events[i]
          IN  /\ ev.a # None
              /\ ui' = [ui EXCEPT !.selected = ev.a, !.selected_a = ev.a, !.selected_b = ev.b]
    /\ UNCHANGED <<clock, policy, model, call, spatial, timeline, perf, cfg, net_rx, vis_out, rd,
                   agentVars>>

\* the engine as constructed; the clock stands still while the frames are applied
InitUi == clock = MaxClock /\ InitModel /\ InitViewer /\ InitAgent

NextUi ==
    \/ UiRecv
    \/ PumpNetwork
    \/ UiLayout
    \/ UiHover
    \/ UiPick
    \/ UiTimelinePick

SpecUi == InitUi /\ [][NextUi]_vars

UiPointers(u) == <<u.focus, u.selected, u.selected_a, u.selected_b, u.hovered>>

\* C20: once the viewer has applied RemoveNode{id}, id is in none of model.nodes,
\* positions, velocities, glow_nodes, no UI pointer equals id, no edge with id as an
\* endpoint is in the model or in glow_edges, and the UI pointers that held other ids
\* are what they were.
RemoveNodeClearsViewer ==
    [][\A id \in ModelIds :
        (net_rx = <<Event(RemoveNode(id), "peer", 0)>> /\ net_rx' = <<>>) =>
            /\ id \notin DOMAIN model'.nodes
            /\ id \notin spatial'.positions
            /\ id \notin spatial'.velocities
            /\ id \notin DOMAIN spatial'.glow_nodes
            /\ \A i \in 1..5 : UiPointers(ui')[i] # id
            /\ \A e \in model'.edges \cup DOMAIN spatial'.glow_edges : e.from # id /\ e.to # id
            /\ \A i \in 1..5 : UiPointers(ui)[i] # id => UiPointers(ui')[i] = UiPointers(ui)[i]
    ]_vars

-----------------------------------------------------------------------------
(* SpecReader: net/uds.rs run, the reader thread of one stream, with the engine *)
(* pumping its queue.  What the socket yields is the environment's choice.      *)

MaxFrames == 3       \* frames the socket yields before it ends or fails
FrameTake == 2       \* messages pump_network takes per frame (100_000 in app/mod.rs)

\* protocol.rs Incoming; n is the number of the frame it was made from (not in the code)
Incoming(kind, n) ==
    [type |-> kind, delta |-> None, nodes |-> <<>>, edges |-> <<>>, src |-> "reader", seq |-> n]

\* the Msg values a frame can decode to, and the Incoming record the reader makes of one
Decodable == { "Identity", "Hello", "UpsertNode", "RemoveNode" }

IncomingOf(what, n) ==
    IF what = "Identity" THEN Incoming("Identity", n)
    ELSE IF what = "Hello" THEN Incoming("Other", n)
    ELSE IF what = "UpsertNode" THEN Event(UpsertNode(P1, NodeFor(P1)), "reader", n)
    ELSE Event(RemoveNode(P1), "reader", n)

\* tx.send on the unbounded queue
RdSend(next, msgs, last) ==
    /\ net_rx' = net_rx \o msgs
    /\ rd' = [next EXCEPT !.sent = @ \o msgs, !.last = last]

RdUnchanged ==
    UNCHANGED <<clock, policy, model, call, spatial, timeline, ui, perf, cfg, vis_out,
                fs, proc, fs_q, proc_q, bus, srv, conn>>

\* ReaderHandle::shutdown
RdShutdown ==
    /\ ~ rd.shutdown
    /\ rd' = [rd EXCEPT !.shutdown = TRUE]
    /\ UNCHANGED net_rx
    /\ RdUnchanged

\* run, lines 40-59: select over shutdown.changed() and UnixStream::connect
RdConnect ==
    /\ rd.pc = "connect"
    /\ \/ rd.shutdown /\ RdSend([rd EXCEPT !.pc = "done"], <<>>, "shutdown")
       \/ RdSend([rd EXCEPT !.pc = "hello"], <<Incoming("Connected", 0)>>, "none")
       \/ RdSend([rd EXCEPT !.pc = "done"],
                 <<Incoming("Error", 0), Incoming("Disconnected", 0)>>, "connect error")
    /\ RdUnchanged

\* run, lines 61-83: the Hello frame is written; the write can fail
RdHello ==
    /\ rd.pc = "hello"
    /\ \/ RdSend([rd EXCEPT !.pc = "loop"], <<>>, "none")
       \/ RdSend([rd EXCEPT !.pc = "done"],
                 <<Incoming("Error", 0), Incoming("Disconnected", 0)>>, "ioerr")
    /\ RdUnchanged

\* the loop's select takes the shutdown branch
RdLoopShutdown ==
    /\ rd.pc = "loop" /\ rd.shutdown
    /\ RdSend([rd EXCEPT !.pc = "done"], <<Incoming("Disconnected", rd.frames)>>, "shutdown")
    /\ RdUnchanged

\* a decode error ends the loop
RdFrame_BreakOnJunk ==
    /\ rd.pc = "loop"
    /\ LET n == rd.frames + 1
       IN  \/ /\ n <= MaxFrames
              /\ \E what \in Decodable :
                    RdSend([rd EXCEPT !.frames = n], <<IncomingOf(what, n)>>, "ok")
           \/ /\ n <= MaxFrames
              /\ RdSend([rd EXCEPT !.frames = n, !.pc = "done"],
                        <<Incoming("Error", n), Incoming("Disconnected", n)>>, "junk")
           \/ RdSend([rd EXCEPT !.frames = n, !.pc = "done"],
                     <<Incoming("Error", n), Incoming("Disconnected", n)>>, "ioerr")
           \/ RdSend([rd EXCEPT !.frames = n, !.pc = "done"],
                     <<Incoming("Disconnected", n)>>, "eof")
    /\ RdUnchanged

\* the loop's select takes framed.next(): a frame that decodes, a frame that does not,
\* a stream error, or the end of the stream
RdFrame ==
    /\ rd.pc = "loop"
    /\ LET n == rd.frames + 1
       IN  \/ /\ n <= MaxFrames
              /\ \E what \in Decodable :
                    RdSend([rd EXCEPT !.frames = n], <<IncomingOf(what, n)>>, "ok")
           \/ /\ n <= MaxFrames
              /\ RdSend([rd EXCEPT !.frames = n], <<Incoming("Error", n)>>, "junk")
           \/ RdSend([rd EXCEPT !.frames = n, !.pc = "done"],
                     <<Incoming("Error", n), Incoming("Disconnected", n)>>, "ioerr")
           \/ RdSend([rd EXCEPT !.frames = n, !.pc = "done"],
                     <<Incoming("Disconnected", n)>>, "eof")
    /\ RdUnchanged

\* pump_network in one frame of the app, taking at most FrameTake messages
RdPump ==
    /\ net_rx # <<>>
    /\ \E now \in Nows :
          /\ SetGS(apply_all(GS, FirstN(net_rx, FrameTake), <<>>, now))
          /\ clock' = now
    /\ net_rx' = try_iter_rest(net_rx, FrameTake)
    /\ rd' = [rd EXCEPT !.pumps = Append(@, <<Len(net_rx), Len(net_rx')>>)]
    /\ UNCHANGED <<vis_out, call, agentVars>>

InitR == InitClock /\ InitModel /\ InitViewer /\ InitAgent

NextR ==
    \/ RdShutdown
    \/ RdConnect
    \/ RdHello
    \/ RdLoopShutdown
    \/ RdFrame
    \/ RdPump

SpecReader == InitR /\ [][NextR]_vars

KindsSent == [i \in DOMAIN rd.sent |-> rd.sent[i].type]

CountOf(kinds, k) == Cardinality({i \in DOMAIN kinds : kinds[i] = k})

\* C21: a frame that does not decode gives the engine one Error record and the reader
\* stays in its loop; a reader that left the loop read a stream error or the end of the
\* stream, or was shut down; a stopped reader that sent Connected sent exactly one
\* Disconnected, as its last message, and a running reader has sent none.
ReaderSurvivesDecodeError ==
    [][/\ (rd'.frames = rd.frames + 1 /\ rd'.last = "junk") =>
              /\ rd'.sent = Append(rd.sent, Incoming("Error", rd'.frames))
              /\ rd'.pc = "loop"
       /\ (rd.pc = "loop" /\ rd'.pc = "done") =>
              /\ rd'.last \in {"ioerr", "eof"} \/ rd.shutdown
              /\ "Connected" \in Range(KindsSent')
       /\ (rd'.pc = "done" /\ "Connected" \in Range(KindsSent')) =>
              /\ CountOf(KindsSent', "Disconnected") = 1
              /\ KindsSent'[Len(KindsSent')] = "Disconnected"
       /\ rd'.pc # "done" => CountOf(KindsSent', "Disconnected") = 0
    ]_vars

\* two frames failed to decode, a third decoded, then the stream ended
ReaderWitness ==
    /\ rd.pc = "done" /\ rd.last = "eof" /\ rd.frames = 4
    /\ CountOf(KindsSent, "Error") = 2
    /\ KindsSent[Len(KindsSent) - 1] = "Event"
    /\ KindsSent[1] = "Connected"

TagOf(msg) ==
    IF msg.delta.type = "UpsertNode" THEN "NodeUpsert" ELSE "NodeRemove"

IsEvent(msg) == msg.type = "Event"

\* C22: every record the reader sent is either applied, once, or still queued, the queue
\* holds the records not yet applied in the order they were sent, and the deltas among
\* the applied records have reached GraphState in that order, one timeline event each.
AppliedOnceInOrder ==
    /\ perf.event_total + Len(net_rx) = Len(rd.sent)
    /\ net_rx = SubSeq(rd.sent, perf.event_total + 1, Len(rd.sent))
    /\ LET applied == SelectSeq(SubSeq(rd.sent, 1, perf.event_total), IsEvent)
       IN  /\ Len(timeline.events) = Len(applied)
           /\ \A i \in DOMAIN applied :
                 /\ timeline.events[i].kind.tag = TagOf(applied[i])
                 /\ timeline.events[i].a = applied[i].delta.id

\* a frame of the app found more than FrameTake messages queued, took FrameTake of
\* them, and a later frame applied the rest
PumpRemainderWitness ==
    /\ Len(rd.pumps) = 2
    /\ rd.pumps[1][1] > FrameTake /\ rd.pumps[1][2] = rd.pumps[1][1] - FrameTake
    /\ rd.pumps[2][2] = 0
    /\ net_rx = <<>>
    /\ Len(timeline.events) >= 3

-----------------------------------------------------------------------------
(* SpecPause: the timeline's pause, scrub and clear controls, with frames applied *)
(* and the housekeeping tick running in between.                                 *)

\* the unpause branch leaves the scrub offset
set_timeline_pause_KeepScrub(st, pause, now) ==
    IF pause = st.timeline.pause THEN st
    ELSE IF pause THEN [st EXCEPT !.timeline.pause = TRUE, !.timeline.frozen_now = <<now>>]
    ELSE [st EXCEPT !.timeline.pause = FALSE, !.timeline.frozen_now = None]

\* GraphState::set_timeline_pause, with Instant::now() = now
set_timeline_pause(st, pause, now) ==
    IF pause = st.timeline.pause THEN st
    ELSE IF pause THEN [st EXCEPT !.timeline.pause = TRUE, !.timeline.frozen_now = <<now>>]
    ELSE [st EXCEPT !.timeline.pause = FALSE, !.timeline.frozen_now = None,
                    !.timeline.scrub_seconds = 0]

\* GraphState::clear
clear(st) ==
    [st EXCEPT !.model = EmptyModel,
               !.spatial.positions = {}, !.spatial.velocities = {},
               !.ui.focus = None, !.ui.hovered = None, !.ui.selected = None,
               !.ui.selected_a = None, !.ui.selected_b = None,
               !.spatial.glow_nodes = EmptyMap, !.spatial.glow_edges = EmptyMap,
               !.perf.ev_window = <<>>, !.perf.event_total = 0,
               !.timeline.events = <<>>, !.timeline.pause = FALSE,
               !.timeline.frozen_now = None, !.timeline.scrub_seconds = 0,
               !.timeline.node_life = EmptyMap, !.timeline.batch_spans = <<>>,
               !.spatial.active_vis_cache = <<>>, !.spatial.progressive_cursor = 0,
               !.spatial.dirty_layout = TRUE, !.spatial.explain_cache = None]

\* the Pause checkbox of the panel and the Space shortcut
PSetPause ==
    /\ \E pause \in BOOLEAN, now \in Nows :
          /\ SetGS(set_timeline_pause(GS, pause, now))
          /\ clock' = now
    /\ UNCHANGED <<net_rx, vis_out, rd, call, agentVars>>

\* the Scrub slider, shown while paused and clamped to [0, window]
PScrub ==
    /\ timeline.pause
    /\ \E s \in 0..timeline.window : timeline' = [timeline EXCEPT !.scrub_seconds = s]
    /\ UNCHANGED <<clock, policy, model, call, spatial, ui, perf, cfg, net_rx, vis_out, rd,
                   agentVars>>

\* the Clear graph button
PClear ==
    /\ SetGS(clear(GS))
    /\ UNCHANGED <<clock, net_rx, vis_out, rd, call, agentVars>>

\* a batch marker arrives from the stream
PRecv ==
    /\ net_rx = <<>>
    /\ perf.event_total < MaxEvents + 1
    /\ \E d \in {BatchBegin(u64(1)), BatchEnd(u64(1))} : net_rx' = <<Event(d, "peer", 0)>>
    /\ UNCHANGED <<clock, policy, model, call, spatial, timeline, ui, perf, cfg, vis_out, rd,
                   agentVars>>

InitP == InitClock /\ InitModel /\ InitViewer /\ InitAgent

NextP ==
    \/ PSetPause
    \/ PScrub
    \/ PClear
    \/ PRecv
    \/ PumpNetwork
    \/ Housekeeping

SpecPause == InitP /\ [][NextP]_vars

PauseInv ==
    /\ timeline.pause <=> timeline.frozen_now # None
    /\ effective_now_from(timeline, clock) =
          (IF timeline.pause THEN Minus(timeline.frozen_now[1], timeline.scrub_seconds)
           ELSE clock)

\* C23: pause is true iff frozen_now is set; frozen_now is the instant at which pause
\* was switched on and stays while paused; unpausing leaves scrub_seconds = 0; and
\* effective_now is the wall clock when not paused, frozen_now - scrub_seconds when
\* paused.
PauseFreezesNow ==
    /\ PauseInv
    /\ [][/\ PauseInv'
          /\ (~ timeline.pause /\ timeline'.pause) => timeline'.frozen_now = <<clock'>>
          /\ (timeline.pause /\ timeline'.pause) => timeline'.frozen_now = timeline.frozen_now
          /\ (timeline.pause /\ ~ timeline'.pause) => timeline'.scrub_seconds = 0
       ]_vars

\* paused at instant 1 and scrubbed back by one second, with spans in the registry
PauseWitness ==
    /\ timeline.pause /\ timeline.frozen_now = <<1>> /\ timeline.scrub_seconds = 1
    /\ effective_now_from(timeline, clock) = 0
    /\ timeline.batch_spans # <<>>

-----------------------------------------------------------------------------
(* SpecLayout: progressive placement, frame after frame, of a model that frames *)
(* from the stream change now and then.                                         *)

MaxPerFrame == 2      \* progressive_nodes_per_frame as configured (default 250)
MaxLayoutNodes == 3   \* max_visible_nodes as configured (default 2000)

LayoutFrames ==
    { Snapshot(<< <<P1, NodeFor(P1)>>, <<U0, NodeFor(U0)>>, <<FA, NodeFor(FA)>> >>, <<>>),
      Event(UpsertNode(P1, NodeFor(P1)), "peer", 0), Event(RemoveNode(P1), "peer", 0) }

LRecv ==
    /\ Len(net_rx) < NetBacklog
    /\ perf.event_total + Len(net_rx) < MaxEvents + 1
    /\ \E f \in LayoutFrames : net_rx' = Append(net_rx, f)
    /\ UNCHANGED <<clock, policy, model, call, spatial, timeline, ui, perf, cfg, vis_out, rd,
                   agentVars>>

\* the settings panel changes progressive_nodes_per_frame and max_visible_nodes
LConfigure ==
    /\ \E k \in 1..MaxPerFrame, n \in 1..MaxLayoutNodes :
          cfg' = [cfg EXCEPT !.progressive_nodes_per_frame = k, !.max_visible_nodes = n]
    /\ UNCHANGED <<clock, policy, model, call, spatial, timeline, ui, perf, net_rx, vis_out, rd,
                   agentVars>>

InitL == clock = MaxClock /\ InitModel /\ InitViewer /\ InitAgent

NextL ==
    \/ LRecv
    \/ PumpNetwork
    \/ LConfigure
    \/ UiLayout

SpecLayout == InitL /\ [][NextL]_vars

\* C24: when a further frame of progressive_prepare changes nothing (the cursor has
\* nowhere left to go), every visible node of the model has a position and
\* dirty_layout is false.
ProgressiveLayoutCompletes ==
    LET vis == visible_set_capped(GS)
    IN  progressive_prepare(GS, vis).spatial = spatial =>
            /\ ~ spatial.dirty_layout
            /\ spatial.progressive_cursor = Len(spatial.active_vis_cache)
            /\ \A id \in vis \cap DOMAIN model.nodes : id \in spatial.positions

-----------------------------------------------------------------------------
(* SpecTick: the fs coalescer over several windows; it starts at its first batch *)
(* id or, after 2^64 - 50001 batches, at the last id before the wrap            *)

MaxTickBatches == 2      \* batches the coalescer emits

InitT ==
    /\ InitClock /\ InitModel /\ InitViewer /\ InitPipeline
    /\ \E first \in {u64(FsFirstBatchId), U64Max} :
          fs = [pending |-> EmptyMap, batch_id |-> first, outbox |-> <<>>, emitted |-> 0]
    /\ policy = DefaultPolicy

\* the ids of the batches emitted so far, oldest first
BatchIdsOf(msgs) ==
    LET IsBegin(m) == IsDelta(m, "BatchBegin")
        begins == SelectSeq(msgs, IsBegin)
    IN  [i \in DOMAIN begins |-> begins[i].delta.id]

\* the coalescer's recv branch
TRecv ==
    /\ fs.outbox = <<>>
    /\ Len(BatchIdsOf(FsEmitted)) < MaxTickBatches
    /\ \E path \in CPaths, action \in {"Upsert", "Remove"} :
          fs' = [fs EXCEPT !.pending = coalesce(fs.pending, path, action)]
    /\ UNCHANGED <<clock, policy, modelVars, viewerVars, proc, fs_q, proc_q, bus, srv, conn>>

NextT == TRecv \/ CTick \/ FsSend \/ FsForward

SpecTick == InitT /\ [][NextT]_vars

\* b is a + 1 as a u64, and 0 after u64::MAX
U64Succ(a, b) ==
    \/ a = U64Max /\ b = <<0, 0, 0, 0>>
    \/ \E i \in 1..4 :
          /\ a[i] < U64Limb - 1 /\ b[i] = a[i] + 1
          /\ \A j \in 1..4 : (j < i => b[j] = a[j]) /\ (j > i => a[j] = U64Limb - 1 /\ b[j] = 0)

\* the tick's sends are BatchBegin{id}, one delta per pending path, BatchEnd{id}
TickBatchOf(pending, id, out) ==
    /\ Len(out) = Cardinality(DOMAIN pending) + 2
    /\ out[1].delta = BatchBegin(id)
    /\ out[Len(out)].delta = BatchEnd(id)
    /\ \A path \in DOMAIN pending :
          /\ Cardinality({i \in DOMAIN out : out[i].delta.id = id_file(path)}) = 1
          /\ \E i \in 2..(Len(out) - 1) :
                out[i].delta = IF pending[path] = "Upsert"
                               THEN UpsertNode(id_file(path), FileNode(path))
                               ELSE RemoveNode(id_file(path))

\* C25: a coalescer tick with a non-empty pending sends BatchBegin{id}, exactly one
\* UpsertNode or RemoveNode per distinct pending path, BatchEnd{id} with the same id,
\* and leaves pending empty; a tick with an empty pending sends nothing and keeps the
\* id; the ids of consecutive batches increase by one, 0 following u64::MAX.
TickEmitsOneBatch ==
    /\ [](fs.pending = EmptyMap => fs_tick(fs, <<>>) = fs)
    /\ [](\A i \in 2..Len(BatchIdsOf(FsEmitted)) :
              U64Succ(BatchIdsOf(FsEmitted)[i - 1], BatchIdsOf(FsEmitted)[i]))
    /\ [][(fs.outbox = <<>> /\ fs'.outbox # <<>>) =>
              /\ fs.pending # EmptyMap
              /\ TickBatchOf(fs.pending, fs.batch_id, fs'.outbox)
              /\ fs'.pending = EmptyMap
              /\ fs'.batch_id = fs.batch_id]_vars
    /\ [][(fs.outbox # <<>> /\ fs'.outbox = <<>>) =>
              U64Succ(fs.batch_id, fs'.batch_id)]_vars

\* two batches were sent, the first with the id u64::MAX and with an UpsertNode and a
\* RemoveNode, the second with the id 0
TickWitness ==
    /\ fs.outbox = <<>> /\ fs_q = <<>>
    /\ BatchIdsOf(bus) = <<U64Max, <<0, 0, 0, 0>> >>
    /\ bus[2].delta.type = "UpsertNode" /\ bus[3].delta.type = "RemoveNode"
    /\ bus[4].delta = BatchEnd(U64Max)
    /\ fs.batch_id = <<0, 0, 0, 1>>

-----------------------------------------------------------------------------
(* SpecProc: the proc watcher over several polls *)

MaxProcTicks == 3        \* batches the proc watcher emits

\* every message the proc watcher has emitted or is about to send, oldest first
ProcEmitted == bus \o proc_q \o proc.outbox

PrTick ==
    /\ Len(BatchIdsOf(ProcEmitted)) < MaxProcTicks
    /\ ProcPoll(Listings, Details)
    /\ UNCHANGED <<clock, policy, modelVars, viewerVars, fs, fs_q, proc_q, bus, srv, conn>>

InitPr == InitClock /\ InitModel /\ InitViewer /\ InitAgent

NextPr == PrTick \/ ProcSend \/ ProcForward

SpecProc == InitPr /\ [][NextPr]_vars

\* the UpsertNode and RemoveNode deltas of pid's process node in msgs, oldest first
PidReports(msgs, pid) ==
    LET About(m) == /\ m.delta.type \in {"UpsertNode", "RemoveNode"}
                    /\ m.delta.id = id_process(pid)
        r == SelectSeq(msgs, About)
    IN  [i \in DOMAIN r |-> r[i].delta.type]

\* the sends of a tick with the differences new and gone
ProcBatchOf(new, gone, id, out) ==
    LET ups == {i \in DOMAIN out : out[i].delta.type \in {"UpsertNode", "UpsertEdge"}}
        rms == {i \in DOMAIN out : out[i].delta.type = "RemoveNode"}
    IN  /\ out[1].delta = BatchBegin(id)
        /\ out[Len(out)].delta = BatchEnd(id)
        /\ ups \cup rms = 2..(Len(out) - 1)
        /\ \A i \in ups, j \in rms : i < j
        /\ \A pid \in new : \E i \in ups : /\ out[i].delta.type = "UpsertNode"
                                           /\ out[i].delta.id = id_process(pid)
                                           /\ out[i].delta.node.type = "Process"
        /\ \A pid \in gone :
              Cardinality({i \in rms : out[i].delta = RemoveNode(id_process(pid))}) = 1
        /\ \A i \in rms : \E pid \in gone : out[i].delta.id = id_process(pid)

\* C26: a proc-watcher tick with new = cur - prev and gone = prev - cur emits nothing
\* when both are empty; otherwise BatchBegin{id}, for each new pid at least the
\* UpsertNode of its process node, then exactly one RemoveNode per gone pid, then
\* BatchEnd{id}.  prev is cur after the tick, so the reports of a pid alternate: it is
\* never reported new twice, or gone twice, in a row.
ProcTickDiff ==
    /\ [](\A pid \in Pids : \A i \in 2..Len(PidReports(ProcEmitted, pid)) :
              PidReports(ProcEmitted, pid)[i] # PidReports(ProcEmitted, pid)[i - 1])
    /\ [](PidReports(ProcEmitted, <<"1">>) # <<>> =>
              PidReports(ProcEmitted, <<"1">>)[1] = "RemoveNode")
    /\ [][(proc.outbox = <<>> /\ proc'.outbox # <<>>) =>
              /\ proc'.prev # proc.prev
              /\ ProcBatchOf(proc'.prev \ proc.prev, proc.prev \ proc'.prev, proc.batch_id,
                             proc'.outbox)]_vars
    /\ [][(proc.outbox = <<>> /\ proc'.outbox = <<>>) =>
              proc'.prev = proc.prev /\ proc'.batch_id = proc.batch_id]_vars

\* pid 2 was reported new with full detail, then pid 1 and pid 2 gone in one batch,
\* then pid 1 new with the minimal node
ProcTickWitness ==
    /\ proc.outbox = <<>> /\ proc_q = <<>>
    /\ Len(BatchIdsOf(bus)) = 3
    /\ PidReports(bus, <<"2">>) = <<"UpsertNode", "RemoveNode">>
    /\ PidReports(bus, <<"1">>) = <<"RemoveNode", "UpsertNode">>
    /\ \E i \in DOMAIN bus : bus[i].delta.type = "UpsertEdge"
    /\ bus[Len(bus) - 1].delta = UpsertNode(id_process(<<"1">>),
                                            ProcessNode(<<"1">>, <<"?">>, <<"n">>))

-----------------------------------------------------------------------------
(* SpecPasswd: the proc watcher over its first polls, with pid 2 starting and  *)
(* exiting; proc.ticks counts the polls and proc.passwd_read tells whether the *)
(* last poll re-read /etc/passwd                                               *)

MaxPasswdTicks == 80     \* polls of the proc watcher

InitPw ==
    /\ InitClock /\ InitModel /\ InitViewer
    /\ fs = [pending |-> EmptyMap, batch_id |-> u64(FsFirstBatchId), outbox |-> <<>>, emitted |-> 0]
    /\ policy = DefaultPolicy
    /\ proc = [prev |-> {<<"1">>}, batch_id |-> u64(ProcFirstBatchId), outbox |-> <<>>,
               emitted |-> 0, ticks |-> 0, passwd_read |-> FALSE]
    /\ fs_q = <<>> /\ proc_q = <<>> /\ bus = <<>>
    /\ srv = [pc |-> "accept", cur |-> "", backlog |-> <<>>]
    /\ conn = [v \in Viewers |-> [state |-> "idle", inbox |-> "none", sent |-> <<>>, rx |-> 0,
                                  lagged |-> FALSE]]

\* one pass of the loop: the passwd test, then the poll
PwTick ==
    /\ proc.outbox = <<>>
    /\ proc.ticks < MaxPasswdTicks
    /\ \E cur \in { {<<"1">>}, {<<"1">>, <<"2">>} } :
          \E no \in Orders(cur \ proc.prev), go \in Orders(proc.prev \ cur) :
              proc' = [proc_tick(proc, cur, no, go, [ok |-> FALSE, fds |-> <<>>])
                          EXCEPT !.ticks = @ + 1,
                                 !.passwd_read = passwd_refresh_due(proc.batch_id)]
    /\ UNCHANGED <<clock, policy, modelVars, viewerVars, fs, fs_q, proc_q, bus, srv, conn>>

NextPw == PwTick \/ ProcSend \/ ProcForward

SpecPasswd == InitPw /\ [][NextPw]_vars

\* C27: counting the polls from the start, /etc/passwd is re-read on every 80th poll
\* and on no other, whether or not the polls in between emitted a batch.
PasswdEveryEightyTicks ==
    proc.ticks > 0 => (proc.passwd_read <=> proc.ticks % PasswdRefreshEvery = 0)

-----------------------------------------------------------------------------
(* SpecFocus: visible_set_capped with a focus, over models of up to four nodes *)
(* joined in a path or a cycle                                                 *)

MaxFocusHops == 3        \* largest focus_hops
MaxFocusVisible == 5     \* largest max_visible_nodes

FocusIds == {FA, P1, U0, P2}

\* FA - P1 - U0 - P2 is a path; the last edge closes it to a cycle
FocusEdges ==
    << Edge(P1, FA, Execs), Edge(P1, U0, RunsAs), Edge(P2, U0, RunsAs), Edge(P2, FA, Execs) >>

FocusFilters == { <<>>, <<"p">>, <<"1">> }

InitF ==
    /\ InitClock /\ InitViewer /\ InitAgent
    /\ call = NoCall
    /\ \E ns \in {FocusIds, FocusIds \ {U0}}, es \in SUBSET Range(FocusEdges) :
          LET InEs(e) == e \in es
              edges == SelectSeq(FocusEdges, InEs)
          IN  model = load_snapshot(EmptyModel, VecOf({<<id, NodeFor(id)>> : id \in ns}),
                                    edges, edges, 0)

\* the UI edits the filter text, sets or clears the focus and the hop count
FSetUi ==
    /\ \E f \in FocusFilters, focus \in {None} \cup FocusIds, hops \in 0..MaxFocusHops :
          ui' = [ui EXCEPT !.filter = f, !.focus = focus, !.focus_hops = hops]
    /\ vis_out' = None
    /\ UNCHANGED <<clock, model, call, spatial, timeline, perf, cfg, net_rx, rd, agentVars>>

\* the settings panel changes max_visible_nodes
FSetMax ==
    /\ \E n \in 0..MaxFocusVisible : cfg' = [cfg EXCEPT !.max_visible_nodes = n]
    /\ vis_out' = None
    /\ UNCHANGED <<clock, model, call, spatial, timeline, ui, perf, net_rx, rd, agentVars>>

NextF == FSetUi \/ FSetMax \/ VisibleSetCapped

SpecFocus == InitF /\ [][NextF]_vars

\* the ids joined to an id of S by a raw edge, in either direction
Around(m, S) ==
    {e.to : e \in {x \in m.edges : x.from \in S}} \cup {e.from : e \in {x \in m.edges : x.to \in S}}

\* the ids at an undirected hop distance of at most h from an id of S
RECURSIVE WithinHops(_, _, _)
WithinHops(m, S, h) == IF h = 0 THEN S ELSE WithinHops(m, S \cup Around(m, S), h - 1)

FocusReach ==
    WithinHops(model, {ui.focus}, IF ui.focus_hops < 1 THEN 1 ELSE ui.focus_hops)

\* C28: with a focus and fewer than max_visible_nodes ids within reach,
\* visible_set_capped() returns exactly the focus and the filter-passing nodes of
\* the model at an undirected hop distance of at most max(focus_hops, 1) from it.
FocusHopsExact ==
    (ui.focus # None /\ Cardinality(FocusReach) < cfg.max_visible_nodes) =>
        /\ visible_set_capped(GS) =
              {ui.focus} \cup {id \in FocusReach \cap DOMAIN model.nodes :
                                     passes_filter(GS, id, model.nodes[id])}
        /\ (vis_out # None => vis_out[1].ids = visible_set_capped(GS))

\* the path FA - P1 - U0 - P2 with focus FA and 2 hops: P2 passes the filter and is
\* left out
FocusHopsWitness ==
    /\ model.edges = {Edge(P1, FA, Execs), Edge(P1, U0, RunsAs), Edge(P2, U0, RunsAs)}
    /\ DOMAIN model.nodes = FocusIds
    /\ ui.focus = FA /\ ui.focus_hops = 2 /\ ui.filter = <<>>
    /\ cfg.max_visible_nodes = 5
    /\ vis_out = <<[ids |-> {FA, P1, U0}, max |-> 5]>>

-----------------------------------------------------------------------------
(* SpecExplain: shortest_path over models of four ids, with any endpoints, depth *)
(* and allowed set; call holds the last call and its result                      *)

MaxDepth == 3            \* largest max_depth

\* the path and cycle edges, and a second edge of another class between P1 and FA
ExplainEdges == FocusEdges \o << Edge(P1, FA, Opens(3, "r")) >>

InitX ==
    /\ InitClock /\ InitViewer /\ InitAgent
    /\ call = NoCall
    /\ \E es \in SUBSET Range(ExplainEdges) :
          LET InEs(e) == e \in es
              edges == SelectSeq(ExplainEdges, InEs)
          IN  model = load_snapshot(EmptyModel, VecOf({<<id, NodeFor(id)>> : id \in FocusIds}),
                                    edges, edges, 0)

\* explain_path_cached calls shortest_path
ShortestPath ==
    /\ call = NoCall
    /\ \E a \in FocusIds, b \in FocusIds, max_depth \in 0..MaxDepth, allowed \in SUBSET FocusIds :
          call' = [op |-> "shortest_path", a |-> a, b |-> b, max_depth |-> max_depth,
                   allowed |-> allowed, ret |-> shortest_path(model, a, b, max_depth, allowed)]
    /\ UNCHANGED <<clock, model, viewerVars, agentVars>>

\* the caller has taken the result
ShortestPathReturn ==
    /\ call # NoCall
    /\ call' = NoCall
    /\ UNCHANGED <<clock, model, viewerVars, agentVars>>

NextX == ShortestPath \/ ShortestPathReturn

SpecExplain == InitX /\ [][NextX]_vars

\* the ids reached from S in at most h undirected hops through ids of allowed
RECURSIVE AllowedWithin(_, _, _, _)
AllowedWithin(m, S, allowed, h) ==
    IF h = 0 THEN S
    ELSE AllowedWithin(m, S \cup (Around(m, S) \cap allowed), allowed, h - 1)

\* the hops of the shortest undirected path from a to b through allowed, when there
\* is one of at most max_depth edges
PathLengths(m, a, b, max_depth, allowed) ==
    {k \in 1..max_depth : a \in allowed /\ b \in AllowedWithin(m, {a}, allowed, k)}

\* steps is a chain from a to b through allowed whose steps follow raw edges
IsChain(m, steps, a, b, allowed) ==
    /\ steps # <<>>
    /\ steps[1].from = a
    /\ steps[Len(steps)].to = b
    /\ \A i \in 1..(Len(steps) - 1) : steps[i].to = steps[i + 1].from
    /\ \A i \in DOMAIN steps :
          /\ steps[i].from \in allowed /\ steps[i].to \in allowed
          /\ \E e \in m.edges :
                /\ {e.from, e.to} = {steps[i].from, steps[i].to}
                /\ from_kind(e.kind) = steps[i].class

\* C29: for a # b and max_depth >= 1, shortest_path returns Some(steps) iff the
\* model has an undirected path from a to b of at most max_depth edges through
\* allowed nodes; steps is then a chain from a to b of minimum length, each step
\* with the endpoints and class of a raw edge; otherwise it returns None.
ShortestPathCorrect ==
    (call.op = "shortest_path" /\ call.a # call.b /\ call.max_depth >= 1) =>
        LET lens == PathLengths(model, call.a, call.b, call.max_depth, call.allowed)
        IN  /\ call.ret # None <=> lens # {}
            /\ call.ret # None =>
                  /\ IsChain(model, call.ret[1], call.a, call.b, call.allowed)
                  /\ \A k \in lens : Len(call.ret[1]) <= k

\* on the path FA - P1 - U0 - P2 the call from FA to P2 returned the three steps, the
\* first against the direction of its edge
ShortestPathWitness ==
    /\ model.edges = {Edge(P1, FA, Execs), Edge(P1, U0, RunsAs), Edge(P2, U0, RunsAs)}
    /\ call.op = "shortest_path"
    /\ call.a = FA /\ call.b = P2 /\ call.max_depth = 3 /\ call.allowed = FocusIds
    /\ call.ret = << << PathStep(FA, P1, "Execs"), PathStep(P1, U0, "RunsAs"),
                        PathStep(U0, P2, "RunsAs") >> >>

-----------------------------------------------------------------------------
(* SpecSpans: the batch-span registry of TimelineState under any order of       *)
(* record_batch_begin, record_batch_end and trim; call holds the last trim call *)

MaxSpans == 3            \* spans opened
MaxSpanClock == 3        \* the clock stops advancing here

SpanIds == {u64(ProcFirstBatchId), u64(FsFirstBatchId)}

InitS == InitClock /\ InitModel /\ InitViewer /\ InitAgent

\* time passes
SClock ==
    /\ clock < MaxSpanClock
    /\ clock' = clock + 1
    /\ UNCHANGED <<policy, modelVars, viewerVars, agentVars>>

SBatchBegin ==
    /\ Len(timeline.batch_spans) < MaxSpans
    /\ \E id \in SpanIds : timeline' = record_batch_begin(timeline, id, clock)
    /\ call' = NoCall
    /\ UNCHANGED <<clock, policy, model, spatial, ui, perf, cfg, net_rx, vis_out, rd, agentVars>>

SBatchEnd ==
    /\ \E id \in SpanIds : timeline' = record_batch_end(timeline, id, clock)
    /\ call' = NoCall
    /\ UNCHANGED <<clock, policy, model, spatial, ui, perf, cfg, net_rx, vis_out, rd, agentVars>>

STrim ==
    /\ timeline' = trim(timeline, clock)
    /\ call' = [op |-> "trim", now |-> clock, before |-> timeline.batch_spans]
    /\ UNCHANGED <<clock, policy, model, spatial, ui, perf, cfg, net_rx, vis_out, rd, agentVars>>

NextS == SClock \/ SBatchBegin \/ SBatchEnd \/ STrim

SpecSpans == InitS /\ [][NextS]_vars

OpenSpans(spans) ==
    LET IsOpen(sp) == sp.end = None IN SelectSeq(spans, IsOpen)

\* C30: after trim(now) every span left in the registry is open or has its end at
\* or after now - window, whatever the order in which spans were opened and closed;
\* trim removes no open span.
TrimKeepsRecentSpans ==
    call.op = "trim" =>
        /\ \A i \in DOMAIN timeline.batch_spans :
              \/ timeline.batch_spans[i].end = None
              \/ timeline.batch_spans[i].end[1] >= window_start(timeline, call.now)
        /\ OpenSpans(timeline.batch_spans) = OpenSpans(call.before)

-----------------------------------------------------------------------------
(* SpecLife: the node-life registry of TimelineState under upserts and removes  *)
(* recorded as time passes, queried for the present or for an earlier moment   *)
(* (a paused or scrubbed timeline); call holds the last query and its result   *)

MaxLifeClock == 4        \* the clock stops advancing here

LifeIds == {P1, FA}

InitLf == InitClock /\ InitModel /\ InitViewer /\ InitAgent

LfClock ==
    /\ clock < MaxLifeClock
    /\ clock' = clock + 1
    /\ UNCHANGED <<policy, modelVars, viewerVars, agentVars>>

LfUpsert ==
    /\ timeline' = record_node_upsert(timeline, P1, clock)
    /\ call' = NoCall
    /\ UNCHANGED <<clock, policy, model, spatial, ui, perf, cfg, net_rx, vis_out, rd, agentVars>>

LfRemove ==
    /\ timeline' = record_node_remove(timeline, P1, clock)
    /\ call' = NoCall
    /\ UNCHANGED <<clock, policy, model, spatial, ui, perf, cfg, net_rx, vis_out, rd, agentVars>>

LfInterval ==
    /\ \E id \in LifeIds, now \in 0..clock :
          call' = [op |-> "node_life_interval", id |-> id, now |-> now,
                   ret |-> node_life_interval(timeline, id, now)]
    /\ UNCHANGED <<clock, policy, model, viewerVars, agentVars>>

NextLf == LfClock \/ LfUpsert \/ LfRemove \/ LfInterval

SpecLife == InitLf /\ [][NextLf]_vars

\* C31: node_life_interval(id, now) returns Some((start, end)) only with
\* now - window <= start < end <= now, start the later of first_seen and the window
\* start, end the earlier of removed_at (now if not removed) and now; it returns
\* None when id is unknown or that interval is empty.
NodeLifeClipped ==
    call.op = "node_life_interval" =>
        LET known == call.id \in DOMAIN timeline.node_life
            life == timeline.node_life[call.id]
            ws == Minus(call.now, timeline.window)
            Later(x, y) == IF x > y THEN x ELSE y
            Earlier(x, y) == IF x < y THEN x ELSE y
            start == Later(life.first_seen, ws)
            end == Earlier(IF life.removed_at = None THEN call.now ELSE life.removed_at[1],
                           call.now)
        IN  /\ call.ret = None <=> (~ known \/ end <= start)
            /\ call.ret # None =>
                  /\ call.ret[1] = <<start, end>>
                  /\ ws <= start /\ start < end /\ end <= call.now

\* P1 was first seen before the window and removed after the moment asked about: the
\* interval is clipped at both ends
NodeLifeWitness ==
    /\ call.op = "node_life_interval" /\ call.id = P1 /\ call.now = 3
    /\ P1 \in DOMAIN timeline.node_life
    /\ timeline.node_life[P1].first_seen = 0
    /\ timeline.node_life[P1].removed_at = <<4>>
    /\ call.ret = << <<1, 3>> >>

-----------------------------------------------------------------------------
(* SpecGc: the orphan GC of the housekeeping tick, on a viewer whose model is   *)
(* loaded and changed by frames, with placed nodes and GC switched on and off   *)

MaxGcMsgs == 3           \* frames received

GcEdge == Edge(P1, FA, Execs)

GcFrames ==
    { Snapshot(<< <<P1, NodeFor(P1)>>, <<U0, NodeFor(U0)>>, <<FA, NodeFor(FA)>> >>, <<GcEdge>>),
      Event(RemoveEdge(GcEdge), "peer", 0), Event(UpsertNode(FA, NodeFor(FA)), "peer", 0) }

GcRecv ==
    /\ Len(net_rx) < NetBacklog
    /\ perf.event_total + Len(net_rx) < MaxGcMsgs
    /\ \E f \in GcFrames : net_rx' = Append(net_rx, f)
    /\ UNCHANGED <<clock, policy, model, call, spatial, timeline, ui, perf, cfg, vis_out, rd,
                   agentVars>>

\* the GC "enabled" checkbox
GcToggle ==
    /\ cfg' = [cfg EXCEPT !.gc_enabled = ~ @]
    /\ UNCHANGED <<clock, policy, model, call, spatial, timeline, ui, perf, net_rx, vis_out, rd,
                   agentVars>>

InitGc == InitClock /\ InitModel /\ InitViewer /\ InitAgent

NextGc == GcRecv \/ PumpNetwork \/ GcToggle \/ UiLayout \/ UiPick \/ Housekeeping

SpecGc == InitGc /\ [][NextGc]_vars

\* the nodes a step removed from the model
Evicted == (DOMAIN model.nodes) \ (DOMAIN model'.nodes)

\* C32: tick_gc removes a node only if it is a File node with no incident raw edge
\* whose last_seen is at least gc_ttl old; it removes no Process or User node and no
\* node with an edge; the evicted node's last_seen, position, velocity and glow go
\* with it; and it does nothing when GC is disabled or less than gc_interval has
\* passed since its last run.
GcEvictsOrphanFiles ==
    [][Housekeeping =>
          /\ \A id \in Evicted :
                /\ model.nodes[id].type = "File"
                /\ ~ \E e \in model.edges : e.from = id \/ e.to = id
                /\ id \in DOMAIN model.last_seen
                /\ clock' - model.last_seen[id] >= cfg.gc_ttl
                /\ id \notin DOMAIN model'.last_seen
                /\ id \notin spatial'.positions
                /\ id \notin spatial'.velocities
                /\ id \notin DOMAIN spatial'.glow_nodes
          /\ \A id \in (DOMAIN model.nodes) \ Evicted : model'.nodes[id] = model.nodes[id]
          /\ model'.edges = model.edges
          /\ (~ cfg.gc_enabled \/ clock' - perf.gc_last_run < cfg.gc_interval) =>
                /\ model' = model
                /\ spatial'.positions = spatial.positions
                /\ spatial'.velocities = spatial.velocities
                /\ ui' = ui
                /\ perf'.gc_last_run = perf.gc_last_run]_vars

\* the GC has run now and evicted the placed file FA, whose edge had been removed;
\* the Process and the User node, orphans too, are still there
GcWitness ==
    /\ perf.gc_last_run = clock /\ clock = 1
    /\ DOMAIN model.nodes = {P1, U0}
    /\ model.edges = {}
    /\ FA \in DOMAIN timeline.node_life
    /\ P1 \in spatial.positions /\ FA \notin spatial.positions
    /\ spatial.active_vis_cache = <<FA, P1>>

-----------------------------------------------------------------------------
(* The two watchers' batches on the bus, as one viewer receives them (SpecViewer) *)

\* the frames the server has written to the viewer
Received == conn["v1"].sent

\* at frame j the viewer has received BatchBegin(id) and not yet BatchEnd(id)
OpenAt(id, j) ==
    \E i \in 1..(j - 1) :
        /\ IsDelta(Received[i], "BatchBegin") /\ Received[i].delta.id = id
        /\ ~ \E k \in (i + 1)..(j - 1) :
                IsDelta(Received[k], "BatchEnd") /\ Received[k].delta.id = id

WatcherBatchIds == BatchIds(FsFirstBatchId, MaxFsBatches + 1)
                      \cup BatchIds(ProcFirstBatchId, MaxProcBatches + 1)

\* C33 as claimed: the watchers' batches do not interleave: no BatchBegin is received
\* between the BatchBegin and the BatchEnd of another batch, and the viewer's in_batch
\* flag is set exactly when one batch is open among the frames it has applied.
BatchesDoNotInterleave ==
    /\ \A j \in DOMAIN Received :
          IsDelta(Received[j], "BatchBegin") =>
              ~ \E id \in WatcherBatchIds : id # Received[j].delta.id /\ OpenAt(id, j)
    /\ spatial.in_batch <=> Cardinality({id \in WatcherBatchIds : BatchOpen(id)}) = 1

-----------------------------------------------------------------------------
(* Batches as the server streams them to a connection (SpecAgent) *)

\* the positions of msgs that hold the delta tag of batch id
BatchMarks(msgs, tag, id) ==
    {i \in DOMAIN msgs : IsDelta(msgs[i], tag) /\ msgs[i].delta.id = id}

\* C34 as claimed, in its finite form: once the receiver of a connection has passed
\* the BatchEnd(id) on the bus, a BatchBegin(id) written to that connection has been
\* followed by the BatchEnd(id); otherwise the batch the viewer opened is never closed.
BatchEndFollowsBegin ==
    \A v \in Viewers, id \in WatcherBatchIds :
        \A i \in BatchMarks(conn[v].sent, "BatchBegin", id) :
            (\E k \in BatchMarks(bus, "BatchEnd", id) : k <= conn[v].rx)
                => \E j \in BatchMarks(conn[v].sent, "BatchEnd", id) : j > i

-----------------------------------------------------------------------------
(* Glowing edges and the UI's pointers against the model (SpecUi, SpecGc) *)

\* C35 as claimed: every edge with an entry in glow_edges is in model.edges.
GlowEdgesInModel == DOMAIN spatial.glow_edges \subseteq model.edges

\* C36 as claimed: none of focus, selected, selected_a, selected_b and hovered refers
\* to an id that is absent from model.nodes.
PointersInModel ==
    \A i \in 1..5 : UiPointers(ui)[i] # None => UiPointers(ui)[i] \in DOMAIN model.nodes

\* the premise of C36 in SpecGc: a click sets the pointers to a node of the model
PicksModelNodes == [][UiPick => ui'.selected_a \in DOMAIN model.nodes]_vars

-----------------------------------------------------------------------------
(* SpecCursor: the progressive layout under snapshots, deltas, the Clear graph *)
(* button, changed settings and layout frames, in any order                    *)

InitCu == clock = MaxClock /\ InitModel /\ InitViewer /\ InitAgent

NextCu == LRecv \/ PumpNetwork \/ LConfigure \/ PClear \/ UiLayout

SpecCursor == InitCu /\ [][NextCu]_vars

\* C37: progressive_cursor never exceeds the length of active_vis_cache, so the
\* slice [cursor, min(cursor + take, len)) progressive_prepare takes is in bounds.
CursorInBounds == spatial.progressive_cursor <= Len(spatial.active_vis_cache)

\* a layout frame that may take more nodes than the cache holds has placed the whole
\* cache: the cursor stopped at the cache's length
CursorWitness ==
    /\ spatial.active_vis_cache # <<>>
    /\ Len(spatial.active_vis_cache) < cfg.progressive_nodes_per_frame
    /\ spatial.progressive_cursor = Len(spatial.active_vis_cache)
    /\ ~ spatial.dirty_layout

-----------------------------------------------------------------------------
(* SpecRaw: the notify callback, the bounded raw queue and the coalescer of     *)
(* watch_fs.rs.  fs.raw is the raw queue; fs.owed is the set of watched paths   *)
(* with an observed event that no batch emitted since has a delta for.          *)

RawCap == 2              \* capacity of the raw queue (8192 in watch_fs.rs)
MaxRawEvents == 4        \* events the callback is called with

\* /a and /a/b pass the default policy, /b is excluded
RawPaths == { <<"/", "a">>, <<"/", "a", "b">>, <<"/", "b">> }

\* tokio mpsc try_send: Err(Full) leaves the queue as it is
try_send(queue, item) == IF Len(queue) < RawCap THEN Append(queue, item) ELSE queue

InitRw ==
    /\ InitClock /\ InitModel /\ InitViewer /\ InitPipeline
    /\ fs = [pending |-> EmptyMap, batch_id |-> u64(FsFirstBatchId), outbox |-> <<>>, emitted |-> 0,
             raw |-> <<>>, owed |-> {}, observed |-> 0]
    /\ policy = DefaultPolicy

\* the notify callback with one event of one path that classifies to action
RwNotify ==
    /\ fs.observed < MaxRawEvents
    /\ \E path \in RawPaths, action \in {"Upsert", "Remove"} :
          IF should_watch(policy, path)
          THEN fs' = [fs EXCEPT !.raw = try_send(@, <<path, action>>),
                                !.owed = @ \cup {path},
                                !.observed = @ + 1]
          ELSE fs' = [fs EXCEPT !.observed = @ + 1]
    /\ UNCHANGED <<clock, policy, modelVars, viewerVars, proc, fs_q, proc_q, bus, srv, conn>>

\* the coalescer's recv branch, fed by the raw queue
RwRecv ==
    /\ fs.outbox = <<>>
    /\ fs.raw # <<>>
    /\ fs' = [fs EXCEPT !.pending = coalesce(@, Head(fs.raw)[1], Head(fs.raw)[2]),
                        !.raw = Tail(@)]
    /\ UNCHANGED <<clock, policy, modelVars, viewerVars, proc, fs_q, proc_q, bus, srv, conn>>

QueuedPaths(raw) == {raw[i][1] : i \in DOMAIN raw}

\* the coalescer's tick branch: the batch has a delta for every pending path
RwTick ==
    /\ fs.outbox = <<>>
    /\ fs.batch_id \in BatchIds(FsFirstBatchId, MaxTickBatches)
    /\ \E order \in Orders(DOMAIN fs.pending) :
          fs' = [fs_tick(fs, order) EXCEPT
                    !.owed = (@ \ DOMAIN fs.pending) \cup (@ \cap QueuedPaths(fs.raw))]
    /\ UNCHANGED <<clock, policy, modelVars, viewerVars, proc, fs_q, proc_q, bus, srv, conn>>

NextRw == RwNotify \/ RwRecv \/ RwTick \/ FsSend \/ FsForward

SpecRaw == InitRw /\ [][NextRw]_vars

\* C38 as claimed, in its finite form: every watched path with an observed event not
\* yet reflected by an emitted batch is on its way to one: in the raw queue or in the
\* coalescer's pending map.  A path that is in neither gets no delta from that event.
NoFsEventLost ==
    \A path \in fs.owed : path \in QueuedPaths(fs.raw) \/ path \in DOMAIN fs.pending

-----------------------------------------------------------------------------
(* SpecReconnect: process_net_commands and the reader threads of one endpoint.  *)
(* rd.readers are the threads spawn_reader has started, oldest first; rd.handle *)
(* is the index of the reader whose handle st.net.connections holds (0: none);  *)
(* rd.log is every record sent on the engine's queue, as <<kind, reader>>.      *)

MaxNetCommands == 3      \* commands the UI issues
MaxReaderFrames == 1     \* frames a reader's socket yields

NetCommands == {"Connect", "Disconnect", "Reconnect"}

NewReader == [pc |-> "connect", shutdown |-> FALSE, frames |-> 0]

\* ReaderHandle::shutdown of the reader st.net.connections holds, and its removal
shutdown_held(r) ==
    IF r.handle = 0 THEN r
    ELSE [r EXCEPT !.readers[r.handle].shutdown = TRUE, !.handle = 0]

\* one arm of the match in process_net_commands
process_net_command(r, cmd) ==
    IF cmd = "Connect"
    THEN IF r.handle # 0 THEN r
         ELSE [r EXCEPT !.readers = Append(@, NewReader), !.handle = Len(r.readers) + 1]
    ELSE IF cmd = "Disconnect" THEN shutdown_held(r)
    ELSE [shutdown_held(r) EXCEPT !.commands = Append(@, "Connect")]

\* the loop over the commands taken by std::mem::take
RECURSIVE process_net_commands(_, _)
process_net_commands(r, cmds) ==
    IF cmds = <<>> THEN r
    ELSE process_net_commands(process_net_command(r, Head(cmds)), Tail(cmds))

InitRc ==
    /\ InitClock /\ InitModel /\ InitEngine /\ InitAgent
    /\ rd = [readers |-> <<>>, handle |-> 0, commands |-> <<>>, issued |-> 0, log |-> <<>>]

RcUnchanged ==
    UNCHANGED <<clock, policy, model, call, spatial, timeline, ui, perf, cfg, vis_out,
                fs, proc, fs_q, proc_q, bus, srv, conn>>

\* the network panel pushes a command for the endpoint
RcCommand ==
    /\ rd.issued < MaxNetCommands
    /\ \E cmd \in NetCommands :
          rd' = [rd EXCEPT !.commands = Append(@, cmd), !.issued = @ + 1]
    /\ UNCHANGED net_rx
    /\ RcUnchanged

\* the system process_net_commands, once per frame
RcProcess ==
    /\ rd.commands # <<>>
    /\ rd' = process_net_commands([rd EXCEPT !.commands = <<>>], rd.commands)
    /\ UNCHANGED net_rx
    /\ RcUnchanged

\* reader i moves to pc and sends the records of kinds on the shared queue
RcSend(i, pc, kinds) ==
    /\ rd' = [rd EXCEPT !.readers[i].pc = pc,
                        !.log = @ \o [k \in DOMAIN kinds |-> <<kinds[k], i>>]]
    /\ net_rx' = net_rx \o [k \in DOMAIN kinds |-> Incoming(kinds[k], i)]

\* uds.rs run of reader i: the connect select, the Hello write, the loop's select
RcReader(i) ==
    /\ \/ /\ rd.readers[i].pc = "connect"
          /\ \/ rd.readers[i].shutdown /\ RcSend(i, "done", <<>>)
             \/ RcSend(i, "hello", <<"Connected">>)
             \/ RcSend(i, "done", <<"Error", "Disconnected">>)
       \/ /\ rd.readers[i].pc = "hello"
          /\ \/ RcSend(i, "loop", <<>>)
             \/ RcSend(i, "done", <<"Error", "Disconnected">>)
       \/ /\ rd.readers[i].pc = "loop"
          /\ \/ rd.readers[i].shutdown /\ RcSend(i, "done", <<"Disconnected">>)
             \/ /\ rd.readers[i].frames < MaxReaderFrames
                /\ rd' = [rd EXCEPT !.readers[i].frames = @ + 1,
                                    !.log = Append(@, <<"Identity", i>>)]
                /\ net_rx' = Append(net_rx, Incoming("Identity", i))
             \/ RcSend(i, "done", <<"Disconnected">>)
    /\ RcUnchanged

RcRead == \E i \in DOMAIN rd.readers : RcReader(i)

\* pump_network in one frame of the app
RcPump ==
    /\ net_rx # <<>>
    /\ \E now \in Nows :
          /\ SetGS(apply_all(GS, FirstN(net_rx, FrameTake), <<>>, now))
          /\ clock' = now
    /\ net_rx' = try_iter_rest(net_rx, FrameTake)
    /\ UNCHANGED <<rd, vis_out, call, agentVars>>

NextRc == RcCommand \/ RcProcess \/ RcRead \/ RcPump

SpecReconnect == InitRc /\ [][NextRc]_vars

\* C39 as claimed: once a reader's Connected is on the engine's queue, no record of an
\* older reader of the endpoint, its Disconnected included, is queued after it.
OneReaderFeedsEngine ==
    \A i, j \in DOMAIN rd.log :
        (i < j /\ rd.log[i][1] = "Connected") => rd.log[j][2] >= rd.log[i][2]

-----------------------------------------------------------------------------
(* SpecCache: explain_path_cached between frames that change the model.  The   *)
(* field GraphState::explain_cache is kept in spatial.explain_cache; call is   *)
(* the last call with its result, call.n the number of calls so far.           *)

MaxExplainCalls == 2     \* calls of explain_path_cached
MaxCacheMsgs == 2        \* frames received

\* GraphState::explain_path_cached at Instant now: <<the state after, the result>>;
\* the cache lives 200 ms, one unit of the model's clock
explain_path_cached(st, a, b, allowed, now) ==
    LET cache == st.spatial.explain_cache
        hit == /\ cache # None
               /\ cache[1].a = a /\ cache[1].b = b /\ cache[1].focus = st.ui.focus
               /\ Minus(now, cache[1].ts) <= 1
        depth == IF st.cfg.explain_max_depth < 1 THEN 1 ELSE st.cfg.explain_max_depth
        result == shortest_path(st.model, a, b, depth, allowed)
    IN  IF hit THEN <<st, cache[1].result>>
        ELSE << [st EXCEPT !.spatial.explain_cache =
                              << [a |-> a, b |-> b, focus |-> st.ui.focus, ts |-> now,
                                  result |-> result] >>],
                result >>

CacheEdge == Edge(P1, FA, Execs)

CacheFrames ==
    { Snapshot(<< <<P1, NodeFor(P1)>>, <<FA, NodeFor(FA)>> >>, <<>>),
      Event(UpsertEdge(CacheEdge), "peer", 0), Event(RemoveEdge(CacheEdge), "peer", 0) }

CaRecv ==
    /\ Len(net_rx) < NetBacklog
    /\ perf.event_total + Len(net_rx) < MaxCacheMsgs
    /\ \E f \in CacheFrames : net_rx' = Append(net_rx, f)
    /\ UNCHANGED <<clock, policy, model, call, spatial, timeline, ui, perf, cfg, vis_out, rd,
                   agentVars>>

\* render/spatial.rs: the tooltip of the hovered node asks why it is connected to the
\* selected one, with the visible set as the allowed set
CaExplain ==
    /\ call.n < MaxExplainCalls
    /\ \E allowed \in {{P1, FA}, {P1}}, now \in Nows :
          LET r == explain_path_cached(GS, P1, FA, allowed, now)
          IN  /\ SetGS(r[1])
              /\ clock' = now
              /\ call' = [op |-> "explain_path_cached", a |-> P1, b |-> FA,
                          allowed |-> allowed, n |-> call.n + 1, ret |-> r[2]]
    /\ UNCHANGED <<net_rx, vis_out, rd, agentVars>>

InitCa == InitClock /\ InitModel /\ InitViewer /\ InitAgent

NextCa == CaRecv \/ PumpNetwork \/ CaExplain

SpecCache == InitCa /\ [][NextCa]_vars

\* C40 as claimed: every call of explain_path_cached(a, b, allowed) returns what
\* shortest_path returns on the model at the time of the call, with explain_max_depth
\* and the allowed set passed in.
ExplainCacheIsFresh ==
    [][call'.n # call.n =>
          call'.ret = shortest_path(model, call'.a, call'.b, cfg.explain_max_depth,
                                    call'.allowed)]_vars

====
